---------------------------- MODULE Spec2Model ----------------------------
(***************************************************************************)
(* A verification model of the VK translation monitor bot:                 *)
(*   - the shared rate limiter VKRateLimiter and the retry loops of        *)
(*     VKClient (src/api/vk_client.py),                                    *)
(*   - the score state machine and the poll loop of VKTranslationMonitor   *)
(*     (src/monitors/translation_monitor.py),                              *)
(*   - the registry active_translations, the Telegram commands and         *)
(*     VKGroupStreamMonitor (src/handlers/telegram_commands.py,            *)
(*     src/monitors/group_stream_monitor.py).                              *)
(* Time is counted in seconds.  The code is asyncio code: the statements   *)
(* between two awaits run without interleaving, so one action is one such  *)
(* stretch of code.                                                        *)
(***************************************************************************)
EXTENDS Integers, Sequences, FiniteSets, TLC

VARIABLES
    \* ---- the clock and the shared VKRateLimiter -------------------------
    now,              \* time.time()
    last_call_time,   \* VKRateLimiter._last_call_time
    call_times,       \* VKRateLimiter._call_times (a list)
    lock,             \* holder of VKRateLimiter._rate_limit_lock, 0 = free
    waiters,          \* FIFO queue of the tasks waiting for the lock
    \* ---- one VKClient invocation per caller task ------------------------
    pc,               \* where each caller is
    op,               \* which client method the caller runs
    retry_count,      \* local retry_count of the method
    wake,             \* end of the caller's current asyncio.sleep
    outcome,          \* what the remote call of the caller did
    result,           \* how the caller's last invocation ended
    calls,            \* remote calls made by the current invocation
    backoffs,         \* backoff sleeps (seconds) of the current invocation
    grants,           \* timestamps recorded by every grant so far
    notified,         \* error_notifier calls of the current invocation
    \* ---- one VKTranslationMonitor ---------------------------------------
    current_score,    \* VKTranslationMonitor.current_score
    message_history,  \* VKTranslationMonitor.message_history
    seen_comments,    \* VKTranslationMonitor.seen_comments
    is_active,        \* VKTranslationMonitor.is_active
    m_pc,             \* where start_monitoring / check_comments is
    new_comments,     \* new_comments of check_comments, not yet sent
    posted,           \* the comments of the video at the provider
    sent,             \* goal messages handed to the channel, with the result
    fed,              \* texts given to send_comment_to_channel so far
    processed,        \* per comment id: calls of send_comment_to_channel
    returned,         \* per comment id: polls that returned it (up to 2)
    user_msgs,        \* messages the monitor sent to its user
    stop_reason,      \* why the poll loop was left
    tick_error,       \* what the provider call of the current tick raised
    primed_upto,      \* comments visible at the priming fetch (-1 before it)
    notify_raised,    \* a notification sent by the monitor's last step raised
    \* ---- the registry, the commands and VKGroupStreamMonitor ------------
    active_translations, \* url -> monitor (0 = no entry)
    mon,              \* every VKTranslationMonitor built: url, is_active, task
    seen_streams,     \* VKGroupStreamMonitor.seen_streams
    wall,             \* what the provider reports for each video of the group
    g_pc,             \* where start_polling / check_for_new_streams is
    g_phase,          \* "startup" during the initial pass, then "poll"
    g_queue,          \* streams still to be handled by the group monitor
    g_mon,            \* monitor built by the running handle_new_stream
    h_pc,             \* where the command handler in progress is
    h_queue,          \* live_streams of catch_existing_command, not yet done
    h_mon,            \* monitor built by the running monitor_command
    stream_started,   \* the "NEW STREAM FOUND!" notifications sent so far
    g_feed,           \* what get_group_videos gave the discovery cycle
    cache,            \* VKClient._video_info_cache: key -> (result, time)
    cache_order,      \* the keys of _video_info_cache in dict order
    stored_at,        \* when the entry of a key was last written (-1: never)
    c_pc,             \* where each get_video_info call is
    c_key,            \* its cache_key
    c_t0,             \* its current_time
    c_result,         \* what the last get_video_info of each requester gave
    cl_video,         \* the video dictionary handed to the classification
    cl_live,          \* what is_live_stream said of it
    cl_ended,         \* what is_stream_ended said of it
    done_at,          \* per caller: when its remote call ended, until the
                      \* release that follows it (-1 otherwise)
    stream_ended_at   \* when the provider began to report the monitored
                      \* video as finished (-1: it is still live)

rlvars == <<now, last_call_time, call_times, lock, waiters, pc, op,
            retry_count, wake, outcome, result, calls, backoffs, grants,
            notified, done_at>>

scvars == <<current_score, message_history, sent, fed>>

monvars == <<seen_comments, is_active, m_pc, new_comments, posted, processed,
             returned, user_msgs, stop_reason, tick_error, primed_upto,
             notify_raised>>

regvars == <<active_translations, mon, seen_streams, wall, g_pc, g_phase,
             g_queue, g_mon, h_pc, h_queue, h_mon, stream_started,
             g_feed>>

cachevars == <<cache, cache_order, stored_at, c_pc, c_key, c_t0, c_result>>

clvars == <<cl_video, cl_live, cl_ended>>

pvvars == <<stream_ended_at>>

vars == <<rlvars, scvars, monvars, regvars, cachevars, clvars, pvvars>>

-----------------------------------------------------------------------------
(* Bounds of the model *)

MaxTime == 80         \* the clock stops here under SpecRL
RetryMaxTime == 180   \* the clock stops here under SpecRetry
FairMaxTime == 400    \* the clock stops here under SpecFair
BeginBy == 20         \* no client method is started after this time under SpecFair
TickStep == 10        \* seconds per clock step
MaxFed == 5           \* comments fed to the score machine under SpecScore
MaxComments == 2      \* comments posted to the video under SpecMonitor
MaxLate == 2          \* comments posted during the broadcast under SpecDelivery
MaxFetch == 2         \* comments in one provider response under SpecMonitor
NumVideos == 2        \* videos on the wall of the group under SpecRegistry
CacheMaxTime == 80    \* the clock stops here under SpecCache
FullSpan == 20        \* how long the clock runs under SpecFullCache
NumCacheKeys == 1     \* videos asked for under SpecCache
ConvergeMaxTime == 80 \* the clock stops here under SpecConverge
MaxMatch == 11        \* comments fed to the score machine under SpecHistory
MaxMonitors == 2      \* monitors built in one run under SpecRegistry

Callers == {1, 2}     \* the concurrent caller tasks of SpecRL
RetryCallers == {1}   \* the single caller task of SpecRetry

-----------------------------------------------------------------------------
(* Program constants *)

min_delay == 20
max_calls_per_minute == 3
window == 60
backoff_base == 10
rate_limit_buffer == 10
max_retries == 3
history_limit == 10
cache_ttl == 30
comments_count == 100   \* get_video_comments(..., count: int = 100)
cache_max_entries == 100

Ops == {"get_video_info", "get_video_comments", "get_group_videos"}
Outcomes == {"ok", "rate_limited", "api_error"}

-----------------------------------------------------------------------------
(* Helpers *)

RECURSIVE Pow2(_)
Pow2(n) == IF n = 0 THEN 1 ELSE 2 * Pow2(n - 1)

SeqMin(s) == CHOOSE x \in {s[i] : i \in 1..Len(s)} :
                 \A y \in {s[i] : i \in 1..Len(s)} : x <= y

Max0(x) == IF x > 0 THEN x ELSE 0

\* [t for t in self._call_times if current_time - t < 60]
CleanCallTimes(ts, current_time) ==
    LET Keep(t) == current_time - t < window IN SelectSeq(ts, Keep)

\* async with self._rate_limit_lock: a task that finds the lock taken (or
\* other tasks already waiting) queues up; the lock is handed out in FIFO order
Enqueue_Lost(c) == waiters

Enqueue(c) == Append(waiters, c)

MayLock_NoMutex(c) == waiters # <<>> /\ Head(waiters) = c
MayLock(c) == lock = 0 /\ waiters # <<>> /\ Head(waiters) = c


-----------------------------------------------------------------------------
(* VKRateLimiter and the retry loops of VKClient *)

\* wait_until = oldest_call + 60 (vk_client.py:57-58)
WindowWaitUntil(ts) == SeqMin(ts) + window

\* wait_time = self._min_delay - time_since_last_call (vk_client.py:68-70)
PerCallWait_Swapped(current_time, last) == (current_time - last) - min_delay
PerCallWait(current_time, last) == min_delay - (current_time - last)

\* wait_time = 10 * (2 ** retry_count) (vk_client.py:107)
BackoffSeconds(retry) == backoff_base * Pow2(retry)

\* if retry_count >= max_retries: return False (vk_client.py:103-104)
ShouldRetry_OffByOne(retry) == ~(retry > max_retries)
ShouldRetry(retry) == ~(retry >= max_retries)

\* The grant history keeps the newest max_calls_per_minute + 1 timestamps:
\* enough to see a fourth grant inside one 60 s window
LastGrants(g) ==
    IF Len(g) > max_calls_per_minute + 1
    THEN SubSeq(g, Len(g) - max_calls_per_minute, Len(g)) ELSE g

\* vk_client.py:75-80: record the call, stamp last_call_time, leave the lock
Grant(c, current_time, ts) ==
    /\ call_times' = Append(ts, current_time)
    /\ last_call_time' = current_time
    /\ grants' = LastGrants(Append(grants, current_time))
    /\ calls' = [calls EXCEPT ![c] = @ + 1]
    /\ pc' = [pc EXCEPT ![c] = "calling"]
    /\ lock' = 0
    /\ wake' = [wake EXCEPT ![c] = 0]

\* vk_client.py:67-80: the per-call delay, checked once
PerCallCheck(c, current_time, ts) ==
    IF current_time - last_call_time < min_delay
    THEN /\ pc' = [pc EXCEPT ![c] = "w_delay"]
         /\ wake' = [wake EXCEPT ![c] =
                        current_time + PerCallWait(current_time, last_call_time)]
         /\ call_times' = ts
         /\ lock' = c
         /\ UNCHANGED <<last_call_time, grants, calls>>
    ELSE Grant(c, current_time, ts)

\* The caller starts one client method: retry_count = 0, then the loop body
\* reaches "await self.rate_limiter.wait_if_needed()"
Begin(c, o) ==
    /\ pc[c] = "idle"
    /\ op' = [op EXCEPT ![c] = o]
    /\ retry_count' = [retry_count EXCEPT ![c] = 0]
    /\ calls' = [calls EXCEPT ![c] = 0]
    /\ backoffs' = [backoffs EXCEPT ![c] = <<>>]
    /\ notified' = [notified EXCEPT ![c] = 0]
    /\ result' = [result EXCEPT ![c] = "none"]
    /\ pc' = [pc EXCEPT ![c] = "w_lock"]
    /\ waiters' = Enqueue(c)
    /\ UNCHANGED <<now, last_call_time, call_times, lock, wake, outcome, grants,
                   done_at>>
    /\ UNCHANGED <<pvvars, clvars, cachevars, scvars, monvars, regvars>>

\* wait_if_needed, from taking the lock to its first sleep or to the grant
wait_if_needed(c) ==
    /\ pc[c] = "w_lock"
    /\ MayLock(c)
    /\ waiters' = Tail(waiters)
    /\ LET current_time == now
           ts == CleanCallTimes(call_times, current_time)
       IN  IF /\ Len(ts) >= max_calls_per_minute
              /\ Max0(WindowWaitUntil(ts) - current_time) > 0
           THEN /\ pc' = [pc EXCEPT ![c] = "w_window"]
                /\ wake' = [wake EXCEPT ![c] =
                               current_time + Max0(WindowWaitUntil(ts) - current_time)]
                /\ call_times' = ts
                /\ lock' = c
                /\ UNCHANGED <<last_call_time, grants, calls>>
           ELSE PerCallCheck(c, current_time, ts)
    /\ UNCHANGED <<now, op, retry_count, outcome, result, backoffs, notified,
                   done_at>>
    /\ UNCHANGED <<pvvars, clvars, cachevars, scvars, monvars, regvars>>

\* wait_if_needed after the per-minute sleep (vk_client.py:62-80)
wait_window_wake(c) ==
    /\ pc[c] = "w_window"
    /\ now >= wake[c]
    /\ PerCallCheck(c, now, CleanCallTimes(call_times, now))
    /\ UNCHANGED <<now, waiters, op, retry_count, outcome, result, backoffs,
                   notified, done_at>>
    /\ UNCHANGED <<pvvars, clvars, cachevars, scvars, monvars, regvars>>

\* wait_if_needed after the per-call sleep (vk_client.py:72-80)
wait_delay_wake(c) ==
    /\ pc[c] = "w_delay"
    /\ now >= wake[c]
    /\ Grant(c, now, call_times)
    /\ UNCHANGED <<now, waiters, op, retry_count, outcome, result, backoffs,
                   notified, done_at>>
    /\ UNCHANGED <<pvvars, clvars, cachevars, scvars, monvars, regvars>>

\* The remote call in the thread pool ends; "finally" reaches
\* "await self.rate_limiter.mark_call_complete()"
remote_return(c, out) ==
    /\ pc[c] = "calling"
    /\ outcome' = [outcome EXCEPT ![c] = out]
    /\ pc' = [pc EXCEPT ![c] = "c_lock"]
    /\ waiters' = Enqueue(c)
    /\ done_at' = [done_at EXCEPT ![c] = now]
    /\ UNCHANGED <<now, last_call_time, call_times, lock, op, retry_count, wake,
                   result, calls, backoffs, grants, notified>>
    /\ UNCHANGED <<pvvars, clvars, cachevars, scvars, monvars, regvars>>

\* What the method does with the outcome once mark_call_complete is done:
\* return, raise, or start the backoff sleep of handle_rate_limit_error
AfterCall(c) ==
    IF outcome[c] = "ok"
    THEN /\ result' = [result EXCEPT ![c] = "returned"]
         /\ pc' = [pc EXCEPT ![c] = "idle"]
         /\ UNCHANGED <<wake, backoffs, notified>>
    ELSE IF op[c] = "get_group_videos"
    THEN \* vk_client.py:415-420: the inner except swallows every error
         /\ result' = [result EXCEPT ![c] = "empty"]
         /\ pc' = [pc EXCEPT ![c] = "idle"]
         /\ UNCHANGED <<wake, backoffs, notified>>
    ELSE IF outcome[c] = "rate_limited" /\ ShouldRetry(retry_count[c])
    THEN /\ pc' = [pc EXCEPT ![c] = "backoff"]
         /\ wake' = [wake EXCEPT ![c] = now + BackoffSeconds(retry_count[c])]
         /\ backoffs' = [backoffs EXCEPT ![c] =
                            Append(@, BackoffSeconds(retry_count[c]))]
         /\ UNCHANGED <<result, notified>>
    ELSE /\ notified' = [notified EXCEPT ![c] = @ + 1]
         /\ result' = [result EXCEPT ![c] =
                          IF outcome[c] = "rate_limited"
                          THEN "raised_rate_limited" ELSE "raised_api_error"]
         /\ pc' = [pc EXCEPT ![c] = "idle"]
         /\ UNCHANGED <<wake, backoffs>>

\* The lock once "async with self._rate_limit_lock" of mark_call_complete is
\* left: nobody holds it, also when the method goes on to the backoff sleep
\* of handle_rate_limit_error (vk_client.py:109 is outside the lock)
LockAfterCall_KeptForBackoff(c) ==
    IF /\ op[c] # "get_group_videos"
       /\ outcome[c] = "rate_limited"
       /\ ShouldRetry(retry_count[c])
    THEN c ELSE 0

LockAfterCall(c) == 0

\* mark_call_complete: under the lock, last_call_time = time.time()
mark_call_complete(c) ==
    /\ pc[c] = "c_lock"
    /\ MayLock(c)
    /\ waiters' = Tail(waiters)
    /\ last_call_time' = now
    /\ AfterCall(c)
    /\ done_at' = [done_at EXCEPT ![c] = -1]
    /\ lock' = LockAfterCall(c)
    /\ UNCHANGED <<now, call_times, op, retry_count, outcome, calls, grants>>
    /\ UNCHANGED <<pvvars, clvars, cachevars, scvars, monvars, regvars>>

\* handle_rate_limit_error after asyncio.sleep(wait_time): it asks for the lock
backoff_wake(c) ==
    /\ pc[c] = "backoff"
    /\ now >= wake[c]
    /\ pc' = [pc EXCEPT ![c] = "n_lock"]
    /\ waiters' = Enqueue(c)
    /\ UNCHANGED <<now, last_call_time, call_times, lock, op, retry_count, wake,
                   outcome, result, calls, backoffs, grants, notified, done_at>>
    /\ UNCHANGED <<pvvars, clvars, cachevars, scvars, monvars, regvars>>

\* handle_rate_limit_error, vk_client.py:113-118, then retry_count += 1 and
\* "continue": the loop body reaches wait_if_needed again
handle_rate_limit_error(c) ==
    /\ pc[c] = "n_lock"
    /\ MayLock(c)
    /\ last_call_time' = now + rate_limit_buffer
    /\ retry_count' = [retry_count EXCEPT ![c] = @ + 1]
    /\ pc' = [pc EXCEPT ![c] = "w_lock"]
    /\ waiters' = Append(Tail(waiters), c)
    /\ UNCHANGED <<now, call_times, lock, op, wake, outcome, result, calls,
                   backoffs, grants, notified, done_at>>
    /\ UNCHANGED <<pvvars, clvars, cachevars, scvars, monvars, regvars>>

\* Time passes
Advance(limit) ==
    /\ now < limit
    /\ now' = now + TickStep
    /\ UNCHANGED <<last_call_time, call_times, lock, waiters, pc, op,
                   retry_count, wake, outcome, result, calls, backoffs, grants,
                   notified, done_at>>
    /\ UNCHANGED <<pvvars, clvars, cachevars, scvars, monvars, regvars>>

-----------------------------------------------------------------------------
(* Comment texts and parse_score_comment (src/utils/url_parser.py) *)

\* A text is a sequence of tokens: a run of digits, a dash, a run of
\* whitespace, or a run of other word characters
Num(n) == [k |-> "num", n |-> n, w |-> ToString(n)]
Word(w) == [k |-> "word", n |-> 0, w |-> w]
Dash == [k |-> "dash", n |-> 0, w |-> "-"]
Space == [k |-> "space", n |-> 0, w |-> " "]

ScoreText(a, b, surname) ==
    IF surname = "" THEN <<Num(a), Dash, Num(b)>>
    ELSE <<Num(a), Dash, Num(b), Space, Word(surname)>>

\* text.strip()
RECURSIVE StripLeft(_)
StripLeft(t) ==
    IF t # <<>> /\ t[1].k = "space" THEN StripLeft(Tail(t)) ELSE t

RECURSIVE StripRight(_)
StripRight(t) ==
    IF t # <<>> /\ t[Len(t)].k = "space"
    THEN StripRight(SubSeq(t, 1, Len(t) - 1)) ELSE t

Strip(t) == StripRight(StripLeft(t))

NoScore == [ok |-> FALSE, our |-> 0, opp |-> 0, surname |-> ""]

\* re.match(r'^(\d+)-(\d+)(?:\s+(\w+))?$', text.strip())
parse_score_comment(text) ==
    LET t == Strip(text)
        Head3 == /\ Len(t) >= 3
                 /\ t[1].k = "num" /\ t[2].k = "dash" /\ t[3].k = "num"
    IN  IF Head3 /\ Len(t) = 3
        THEN [ok |-> TRUE, our |-> t[1].n, opp |-> t[3].n, surname |-> ""]
        ELSE IF Head3 /\ Len(t) = 5 /\ t[4].k = "space"
                      /\ t[5].k \in {"word", "num"}
        THEN [ok |-> TRUE, our |-> t[1].n, opp |-> t[3].n, surname |-> t[5].w]
        ELSE NoScore

is_score_comment(text) == parse_score_comment(text).ok

\* The texts posted to the video under SpecMonitor
PostableTexts ==
    { ScoreText(1, 0, "Smith"), ScoreText(1, 1, ""), <<Word("hello")>> }

\* The texts fed to the score machine under SpecScore
CommentTexts ==
    { ScoreText(0, 0, ""), ScoreText(1, 0, "Smith"), ScoreText(1, 1, ""),
      ScoreText(2, 1, "Jones"), ScoreText(2, 0, ""),
      <<Space, Num(0), Dash, Num(1), Space>>, <<Word("hello")>> }

-----------------------------------------------------------------------------
(* The score state machine: VKTranslationMonitor.send_comment_to_channel *)

OwnGoal(our, opp, surname) ==
    [kind |-> "own", our |-> our, opp |-> opp, surname |-> surname]
OpponentGoal(our, opp) ==
    [kind |-> "opp", our |-> our, opp |-> opp, surname |-> ""]

\* translation_monitor.py:139 and :194: which branch a parsed score takes
OurTeamScored(p, score) == p.our > score[1]
OpponentScored_OrEqual(p, score) == p.opp >= score[2]

OpponentScored(p, score) == p.opp > score[2]

\* translation_monitor.py:227-231
KeepHistory_DropsNewest(h) ==
    IF Len(h) > history_limit THEN SubSeq(h, 1, history_limit) ELSE h

KeepHistory(h) ==
    IF Len(h) > history_limit
    THEN SubSeq(h, Len(h) - history_limit + 1, Len(h)) ELSE h

\* The message is handed to the bot; when the send raises, the except at
\* translation_monitor.py:235 ends the method before the score is updated
Emit_ScoreBeforeSend(ev, p, sink_ok) ==
    /\ sent' = Append(sent, [ev |-> ev, ok |-> sink_ok])
    /\ current_score' = <<p.our, p.opp>>
    /\ message_history' = IF sink_ok THEN KeepHistory(Append(message_history, ev))
                          ELSE message_history

Emit(ev, p, sink_ok) ==
    /\ sent' = Append(sent, [ev |-> ev, ok |-> sink_ok])
    /\ IF sink_ok
       THEN /\ current_score' = <<p.our, p.opp>>
            /\ message_history' = KeepHistory(Append(message_history, ev))
       ELSE UNCHANGED <<current_score, message_history>>

send_comment_to_channel(text, sink_ok) ==
    LET p == parse_score_comment(text)
    IN  /\ fed' = Append(fed, text)
        /\ IF ~is_score_comment(text)
           THEN UNCHANGED <<current_score, message_history, sent>>
           ELSE IF OurTeamScored(p, current_score)
           THEN Emit(OwnGoal(p.our, p.opp, p.surname), p, sink_ok)
           ELSE IF OpponentScored(p, current_score)
           THEN Emit(OpponentGoal(p.our, p.opp), p, sink_ok)
           ELSE UNCHANGED <<current_score, message_history, sent>>

\* One comment is put through the score state machine
FeedUpTo(limit, text, sink_ok) ==
    /\ Len(fed) < limit
    /\ send_comment_to_channel(text, sink_ok)
    /\ UNCHANGED <<pvvars, clvars, cachevars, rlvars, monvars, regvars>>

FeedComment(text, sink_ok) == FeedUpTo(MaxFed, text, sink_ok)

\* The comments of a long match: the next goal of either side, delivered,
\* or the next own goal with the bot raising
MatchInputs ==
    { <<ScoreText(current_score[1] + 1, current_score[2], ""), TRUE>>,
      <<ScoreText(current_score[1], current_score[2] + 1, ""), TRUE>>,
      <<ScoreText(current_score[1] + 1, current_score[2], ""), FALSE>> }

FeedGoal(text, sink_ok) == FeedUpTo(MaxMatch, text, sink_ok)

-----------------------------------------------------------------------------
(* Video payloads and their classification (src/api/vk_client.py:446-496) *)

\* live: -1 stands for an absent field
VideoInfos ==
    [live : {-1, 0, 1, 2}, live_status : {"", "started", "finished"},
     is_mobile_live : BOOLEAN, type : {"video", "live"}]

\* get_video_info raised or returned None: there is no payload to read
NoVideoInfo ==
    [live |-> -1, live_status |-> "", is_mobile_live |-> FALSE, type |-> "video"]

is_stream_ended_LiveFieldOnly(video) == video.live = 2

is_stream_ended(video) == video.live = 2 \/ video.live_status = "finished"

\* what get_video_info answers for a video that is or was a broadcast, in
\* the two fields is_stream_ended reads
TickVideos == {v \in VideoInfos : v.type = "live" /\ ~v.is_mobile_live}

-----------------------------------------------------------------------------
(* The poll loop of one VKTranslationMonitor *)

Comment(i) == [id |-> i, text |-> posted[i]]

SeqsUpTo(S, n) == UNION {[1..k -> S] : k \in 0..n}

\* What get_video_comments may return: comments of the video, in any order
\* and with repetitions
Responses ==
    {[i \in 1..Len(r) |-> Comment(r[i])] :
        r \in SeqsUpTo(1..Len(posted), MaxFetch)}

Ids(comments) == {comments[i].id : i \in 1..Len(comments)}

Reverse(q) == [i \in 1..Len(q) |-> q[Len(q) + 1 - i]]

\* self.seen_comments.add(comment_id)
AddSeen_Forgotten(seen, id) == seen
AddSeen(seen, id) == seen \cup {id}

\* the middle of a range of positions of a list
Mid(lo, hi) == (lo + hi) \div 2

\* translation_monitor.py:104-107: the body of "for comment in comments"
MarkOne(cm, r) ==
    IF cm.id \notin r.seen
    THEN [new |-> Append(r.new, cm), seen |-> AddSeen(r.seen, cm.id)]
    ELSE r

\* the loop over comments[lo..hi] in order, split in halves to keep the
\* evaluation shallow for a full page of comments; the result of the first
\* half is bound by a set so that it is a value before the second half starts
RECURSIVE MarkRange(_, _, _, _)
MarkRange(comments, lo, hi, r) ==
    IF lo > hi THEN r
    ELSE IF lo = hi THEN MarkOne(comments[lo], r)
    ELSE CHOOSE out \in
             { MarkRange(comments, Mid(lo, hi) + 1, hi, left) :
                   left \in {MarkRange(comments, lo, Mid(lo, hi), r)} } : TRUE

\* translation_monitor.py:102-107
MarkSeen(comments, seen, acc) ==
    MarkRange(comments, 1, Len(comments), [new |-> acc, seen |-> seen])

\* translation_monitor.py:313-328: the body of the loop over the existing
\* comments
PrimeOne(cm, score) ==
    LET p == parse_score_comment(cm.text)
    IN  IF p.ok /\ (p.our > score[1] \/ p.opp > score[2])
        THEN <<p.our, p.opp>> ELSE score

\* the loop over comments[lo..hi] in order, split in halves
RECURSIVE PrimeRange(_, _, _, _)
PrimeRange(comments, lo, hi, score) ==
    IF lo > hi THEN score
    ELSE IF lo = hi THEN PrimeOne(comments[lo], score)
    ELSE CHOOSE out \in
             { PrimeRange(comments, Mid(lo, hi) + 1, hi, left) :
                   left \in {PrimeRange(comments, lo, Mid(lo, hi), score)} } : TRUE

\* translation_monitor.py:313-328: the score after the existing comments
PrimeScore(comments, score) == PrimeRange(comments, 1, Len(comments), score)

\* The provider calls of a tick can raise: "access_denied" is ApiError code
\* 15, "error" any other exception (a rate limit that outlived the retries
\* included)
ProviderErrors == {"error", "access_denied"}

\* "except Exception: ... return True" (translation_monitor.py:115-117): the
\* loop sleeps and goes on, whatever was raised
TickErrorNext_Fatal(kind) == IF kind = "error" THEN "stopped" ELSE "sleep"
TickErrorNext(kind) == "sleep"

\* get_video_comments returns the comments of the video, oldest first
VisibleComments == [i \in 1..Len(posted) |-> Comment(i)]

\* video.getComments(sort='asc', count=count) without an offset
\* (vk_client.py:309-315): the oldest comments_count comments of the video
get_video_comments ==
    SubSeq(VisibleComments, 1,
           IF Len(posted) < comments_count THEN Len(posted) ELSE comments_count)

\* "while self.is_active:" followed by check_comments, which starts with
\* get_video_info; or the end of start_monitoring
EnterLoop_NoTest == m_pc' = "info" /\ UNCHANGED stop_reason
EnterLoop ==
    IF is_active
    THEN m_pc' = "info" /\ UNCHANGED stop_reason
    ELSE m_pc' = "stopped" /\ stop_reason' = "inactive"

\* send_system_message, send_notification_to_user and the error notifier
\* catch what the bot raises (translation_monitor.py:272-292,
\* error_notifier.py:38-57): the caller goes on as after a delivered message
AfterNotify_Propagates(next, raised) == IF raised > 0 THEN "stopped" ELSE next
AfterNotify(next, raised) == next

\* how many messages the step of check_comments sends: two when the stream
\* has ended, one error notification when the provider call raised
InfoSends(kind, video) ==
    IF kind \in ProviderErrors THEN 1
    ELSE IF kind = "video" /\ is_stream_ended(video) THEN 2 ELSE 0

\* start_monitoring up to the call of get_video_comments in
\* process_existing_comments
start_monitoring(raised) ==
    /\ m_pc = "created"
    /\ user_msgs' = Append(user_msgs, "started")
    /\ notify_raised' = (raised > 0)
    /\ m_pc' = AfterNotify("priming", raised)
    /\ UNCHANGED <<seen_comments, is_active, new_comments, posted, processed,
                   returned, stop_reason, tick_error, primed_upto>>
    /\ UNCHANGED <<pvvars, clvars, cachevars, rlvars, scvars, regvars>>

\* process_existing_comments once get_video_comments has returned or raised
process_existing_comments(resp, ok) ==
    /\ m_pc = "priming"
    /\ IF ok /\ resp # <<>>
       THEN /\ seen_comments' = seen_comments \cup Ids(resp)
            /\ current_score' = PrimeScore(Reverse(resp), current_score)
       ELSE UNCHANGED <<seen_comments, current_score>>
    /\ primed_upto' = Len(posted)
    /\ notify_raised' = FALSE
    /\ EnterLoop
    /\ UNCHANGED <<is_active, new_comments, posted, processed, returned,
                   user_msgs, tick_error>>
    /\ UNCHANGED <<pvvars, clvars, cachevars, rlvars, message_history, sent, fed, regvars>>

\* check_comments once get_video_info has returned (kind "video" or "none")
\* or raised (kind "error"), translation_monitor.py:78-100 and 115-117
InfoStep(kind, video, raised) ==
    /\ m_pc = "info"
    /\ raised <= InfoSends(kind, video)
    /\ notify_raised' = (raised > 0)
    /\ tick_error' = IF kind \in ProviderErrors THEN kind ELSE "none"
    /\ IF kind \in ProviderErrors
       THEN /\ m_pc' = AfterNotify(TickErrorNext(kind), raised)
            /\ UNCHANGED <<is_active, user_msgs, stop_reason>>
       ELSE IF kind = "none"
       THEN /\ m_pc' = "stopped"
            /\ stop_reason' = "not_found"
            /\ UNCHANGED <<is_active, user_msgs>>
       ELSE IF is_stream_ended(video)
       THEN /\ is_active' = FALSE
            /\ user_msgs' = user_msgs \o <<"ended_system", "ended_user">>
            /\ m_pc' = "stopped"
            /\ stop_reason' = "ended"
       ELSE /\ m_pc' = "comments"
            /\ UNCHANGED <<is_active, user_msgs, stop_reason>>
    /\ UNCHANGED <<seen_comments, new_comments, posted, processed, returned,
                   primed_upto>>

check_comments_info(kind, video, raised) ==
    /\ InfoStep(kind, video, raised)
    /\ UNCHANGED <<pvvars, clvars, cachevars, rlvars, scvars, regvars>>

\* check_comments once get_video_comments has returned or raised,
\* translation_monitor.py:100-117
check_comments_fetched(resp, kind, raised) ==
    /\ m_pc = "comments"
    /\ raised <= InfoSends(kind, NoVideoInfo)
    /\ notify_raised' = (raised > 0)
    /\ tick_error' = IF kind \in ProviderErrors THEN kind ELSE "none"
    /\ IF kind = "ok"
       THEN LET r == MarkSeen(resp, seen_comments, <<>>)
            IN  /\ seen_comments' = r.seen
                /\ new_comments' = r.new
                /\ returned' = [i \in DOMAIN returned |->
                                  IF i \in Ids(resp) /\ returned[i] < 2
                                  THEN returned[i] + 1 ELSE returned[i]]
                /\ m_pc' = IF r.new = <<>> THEN "sleep" ELSE "sending"
       ELSE /\ m_pc' = AfterNotify(TickErrorNext(kind), raised)
            /\ UNCHANGED <<seen_comments, new_comments, returned>>
    /\ UNCHANGED <<is_active, posted, processed, user_msgs, stop_reason,
                   primed_upto>>
    /\ UNCHANGED <<pvvars, clvars, cachevars, rlvars, scvars, regvars>>

\* "for comment in new_comments: await self.send_comment_to_channel(comment)"
send_new_comment(sink_ok) ==
    /\ m_pc = "sending"
    /\ send_comment_to_channel(Head(new_comments).text, sink_ok)
    /\ processed' = [processed EXCEPT ![Head(new_comments).id] = @ + 1]
    /\ new_comments' = Tail(new_comments)
    /\ m_pc' = IF Tail(new_comments) = <<>> THEN "sleep" ELSE "sending"
    /\ notify_raised' = FALSE
    /\ UNCHANGED <<seen_comments, is_active, posted, returned, user_msgs,
                   stop_reason, tick_error, primed_upto>>
    /\ UNCHANGED <<pvvars, clvars, cachevars, rlvars, regvars>>

\* await asyncio.sleep(30) is over
sleep_wake ==
    /\ m_pc = "sleep"
    /\ notify_raised' = FALSE
    /\ EnterLoop
    /\ UNCHANGED <<seen_comments, is_active, new_comments, posted, processed,
                   returned, user_msgs, tick_error, primed_upto>>
    /\ UNCHANGED <<pvvars, clvars, cachevars, rlvars, scvars, regvars>>

\* stop_command / remove_translation_callback: monitor.is_active = False
stop_request ==
    /\ is_active
    /\ m_pc # "stopped"
    /\ is_active' = FALSE
    /\ UNCHANGED <<seen_comments, m_pc, new_comments, posted, processed,
                   returned, user_msgs, stop_reason, tick_error, primed_upto,
                   notify_raised>>
    /\ UNCHANGED <<pvvars, clvars, cachevars, rlvars, scvars, regvars>>

\* A viewer posts a comment
PostUpTo(limit, text) ==
    /\ Len(posted) < limit
    /\ posted' = Append(posted, text)
    /\ UNCHANGED <<seen_comments, is_active, m_pc, new_comments, processed,
                   returned, user_msgs, stop_reason, tick_error, primed_upto,
                   notify_raised>>
    /\ UNCHANGED <<pvvars, clvars, cachevars, rlvars, scvars, regvars>>

post_comment(text) == PostUpTo(MaxComments, text)

-----------------------------------------------------------------------------
(* The registry active_translations, the commands, VKGroupStreamMonitor *)

Videos == 1..NumVideos

\* wall.get lists the newest video first
WallOrder == [i \in 1..NumVideos |-> NumVideos + 1 - i]

\* A url names a video; the same video can be written in more than one way
\* (https://vk.com/video-1_2, https://vkvideo.ru/video-1_2, ...)
Urls == [video : Videos, form : {"vk.com", "other"}]

get_video_url(v) == [video |-> v, form |-> "vk.com"]

parse_video_url(url) == url.video

NotAStream ==
    [live |-> -1, live_status |-> "", is_mobile_live |-> FALSE, type |-> "video"]
Started ==
    [live |-> 1, live_status |-> "started", is_mobile_live |-> FALSE, type |-> "live"]
Finished ==
    [live |-> 2, live_status |-> "finished", is_mobile_live |-> FALSE, type |-> "video"]

is_live_stream_NoOverride(video) ==
    \/ video.live = 1
    \/ video.live_status = "started"
    \/ video.is_mobile_live /\ video.live_status # "finished"
    \/ video.type = "live"
is_live_stream(video) ==
    LET base == video.live = 1 \/ video.live_status = "started"
        mobile == IF video.is_mobile_live /\ video.live_status # "finished"
                  THEN TRUE ELSE base
        typed == IF video.type = "live" \/ video.live = 1 THEN TRUE ELSE mobile
    IN  IF video.live_status = "finished" /\ video.live # 1 THEN FALSE ELSE typed

\* the filter of check_for_new_streams
PotentialLive(video) ==
    \/ video.live = 1
    \/ video.live_status = "started"
    \/ (video.is_mobile_live /\ video.live_status # "finished")
    \/ video.live_status = "finished"

\* get_group_videos: the wall, or nothing when the call failed
GroupVideos(ok) == IF ok THEN WallOrder ELSE <<>>

MonIds == 1..MaxMonitors

Unbuilt == {m \in MonIds : mon[m].task = "unbuilt"}

NewMon == CHOOSE m \in Unbuilt : \A k \in Unbuilt : m <= k

\* VKTranslationMonitor(url, ...) followed by active_translations[url] = monitor
Register(url, task) ==
    /\ Unbuilt # {}
    /\ mon' = [mon EXCEPT ![NewMon] = [url |-> url, is_active |-> TRUE,
                                       task |-> task]]
    /\ active_translations' = [active_translations EXCEPT ![url] = NewMon]

Registered == {u \in Urls : active_translations[u] # 0}

\* ---- the task of one monitor -------------------------------------------

\* start_monitoring up to the loop
task_start_monitoring(m) ==
    /\ mon[m].task = "created"
    /\ mon' = [mon EXCEPT ![m].task = "running"]
    /\ UNCHANGED <<active_translations, seen_streams, wall, g_pc, g_phase,
                   g_queue, g_mon, h_pc, h_queue, h_mon,
                   stream_started, g_feed>>
    /\ UNCHANGED <<pvvars, clvars, cachevars, rlvars, scvars, monvars>>

\* one turn of the loop of start_monitoring: the while test and
\* check_comments; verdict is what check_comments met
task_check_comments(m, verdict) ==
    /\ mon[m].task = "running"
    /\ verdict = "ended" => is_stream_ended(wall[parse_video_url(mon[m].url)])
    /\ mon' =
         IF ~mon[m].is_active THEN [mon EXCEPT ![m].task = "done"]
         ELSE IF verdict = "ended"
              THEN [mon EXCEPT ![m].is_active = FALSE, ![m].task = "done"]
         ELSE IF verdict = "not_found" THEN [mon EXCEPT ![m].task = "done"]
         ELSE mon
    /\ mon' # mon
    /\ UNCHANGED <<active_translations, seen_streams, wall, g_pc, g_phase,
                   g_queue, g_mon, h_pc, h_queue, h_mon,
                   stream_started, g_feed>>
    /\ UNCHANGED <<pvvars, clvars, cachevars, rlvars, scvars, monvars>>

\* ---- the commands (the bot handles one update at a time) ---------------

monitor_command(url) ==
    /\ h_pc = "idle"
    /\ url \notin Registered
    /\ Register(url, "built")
    /\ h_mon' = NewMon
    /\ h_pc' = "monitor_reply"
    /\ UNCHANGED <<seen_streams, wall, g_pc, g_phase, g_queue, g_mon, h_queue,
                   stream_started, g_feed>>
    /\ UNCHANGED <<pvvars, clvars, cachevars, rlvars, scvars, monvars>>

monitor_command_task ==
    /\ h_pc = "monitor_reply"
    /\ mon' = [mon EXCEPT ![h_mon].task = "created"]
    /\ h_pc' = "idle"
    /\ h_mon' = 0
    /\ UNCHANGED <<active_translations, seen_streams, wall, g_pc, g_phase,
                   g_queue, g_mon, h_queue,
                   stream_started, g_feed>>
    /\ UNCHANGED <<pvvars, clvars, cachevars, rlvars, scvars, monvars>>

stop_command(url) ==
    /\ h_pc = "idle"
    /\ url \in Registered
    /\ mon[active_translations[url]].is_active
    /\ mon' = [mon EXCEPT ![active_translations[url]].is_active = FALSE]
    /\ UNCHANGED <<active_translations, seen_streams, wall, g_pc, g_phase,
                   g_queue, g_mon, h_pc, h_queue, h_mon,
                   stream_started, g_feed>>
    /\ UNCHANGED <<pvvars, clvars, cachevars, rlvars, scvars, monvars>>

remove_translation_callback(url) ==
    /\ h_pc = "idle"
    /\ url \in Registered
    /\ mon' = [mon EXCEPT ![active_translations[url]].is_active = FALSE]
    /\ active_translations' = [active_translations EXCEPT ![url] = 0]
    /\ UNCHANGED <<seen_streams, wall, g_pc, g_phase, g_queue, g_mon, h_pc,
                   h_queue, h_mon,
                   stream_started, g_feed>>
    /\ UNCHANGED <<pvvars, clvars, cachevars, rlvars, scvars, monvars>>

catch_existing_command ==
    /\ h_pc = "idle"
    /\ h_pc' = "catch_fetch"
    /\ UNCHANGED <<active_translations, mon, seen_streams, wall, g_pc, g_phase,
                   g_queue, g_mon, h_queue, h_mon,
                   stream_started, g_feed>>
    /\ UNCHANGED <<pvvars, clvars, cachevars, rlvars, scvars, monvars>>

catch_existing_fetched(ok) ==
    /\ h_pc = "catch_fetch"
    /\ LET live_streams ==
               SelectSeq(GroupVideos(ok), LAMBDA v : is_live_stream(wall[v]))
       IN  /\ h_queue' = live_streams
           /\ h_pc' = IF live_streams = <<>> THEN "idle" ELSE "catch_loop"
    /\ UNCHANGED <<active_translations, mon, seen_streams, wall, g_pc, g_phase,
                   g_queue, g_mon, h_mon,
                   stream_started, g_feed>>
    /\ UNCHANGED <<pvvars, clvars, cachevars, rlvars, scvars, monvars>>

\* the head of the for loop: the test stream_url not in active_translations
catch_existing_next ==
    /\ h_pc = "catch_loop"
    /\ IF h_queue = <<>> THEN h_pc' = "idle" /\ UNCHANGED h_queue
       ELSE IF get_video_url(Head(h_queue)) \in Registered
            THEN h_queue' = Tail(h_queue) /\ UNCHANGED h_pc
       ELSE h_pc' = "catch_send" /\ UNCHANGED h_queue
    /\ UNCHANGED <<active_translations, mon, seen_streams, wall, g_pc, g_phase,
                   g_queue, g_mon, h_mon,
                   stream_started, g_feed>>
    /\ UNCHANGED <<pvvars, clvars, cachevars, rlvars, scvars, monvars>>

\* after the channel message: build, register, create the task, mark seen
catch_existing_register ==
    /\ h_pc = "catch_send"
    /\ Register(get_video_url(Head(h_queue)), "created")
    /\ seen_streams' = seen_streams \cup {Head(h_queue)}
    /\ h_queue' = Tail(h_queue)
    /\ h_pc' = "catch_loop"
    /\ UNCHANGED <<wall, g_pc, g_phase, g_queue, g_mon, h_mon,
                   stream_started, g_feed>>
    /\ UNCHANGED <<pvvars, clvars, cachevars, rlvars, scvars, monvars>>

\* ---- VKGroupStreamMonitor ----------------------------------------------

AfterHandling(queue) ==
    IF queue # <<>> THEN "new_notify"
    ELSE IF g_phase = "startup" THEN "poll" ELSE "sleep"

\* the initial check of start_polling
start_polling(ok) ==
    /\ g_pc = "start"
    /\ LET existing_streams ==
               SelectSeq(GroupVideos(ok), LAMBDA v : is_live_stream(wall[v]))
       IN  /\ seen_streams' =
                 seen_streams \cup {existing_streams[i] :
                                      i \in 1..Len(existing_streams)}
           /\ g_queue' = existing_streams
           /\ g_pc' = IF existing_streams = <<>> THEN "poll" ELSE "new_notify"
           /\ g_phase' = IF existing_streams = <<>> THEN "poll" ELSE g_phase
    /\ UNCHANGED <<active_translations, mon, wall, g_mon, h_pc, h_queue,
                   h_mon, stream_started, g_feed>>
    /\ UNCHANGED <<pvvars, clvars, cachevars, rlvars, scvars, monvars>>

\* handle_new_stream after its two messages: build and register the monitor
handle_new_stream ==
    /\ g_pc = "new_notify"
    /\ stream_started' =
          stream_started \cup {[video |-> Head(g_queue), phase |-> g_phase]}
    /\ Register(get_video_url(Head(g_queue)), "built")
    /\ g_mon' = NewMon
    /\ g_pc' = "new_sleep"
    /\ UNCHANGED <<seen_streams, wall, g_phase, g_queue, h_pc, h_queue, h_mon,
                   g_feed>>
    /\ UNCHANGED <<pvvars, clvars, cachevars, rlvars, scvars, monvars>>

\* handle_new_stream after asyncio.sleep(2): create the task
handle_new_stream_task ==
    /\ g_pc = "new_sleep"
    /\ mon' = [mon EXCEPT ![g_mon].task = "created"]
    /\ g_mon' = 0
    /\ g_queue' = Tail(g_queue)
    /\ g_pc' = AfterHandling(Tail(g_queue))
    /\ g_phase' = IF Tail(g_queue) = <<>> THEN "poll" ELSE g_phase
    /\ UNCHANGED <<active_translations, seen_streams, wall, h_pc, h_queue, h_mon,
                   stream_started, g_feed>>
    /\ UNCHANGED <<pvvars, clvars, cachevars, rlvars, scvars, monvars>>

\* the discovery cycle has not called get_group_videos
NoFeed == <<0>>

\* "if video_id not in self.seen_streams"
NotSeen_Always(v) == TRUE
NotSeen(v) == v \notin seen_streams

\* check_for_new_streams up to get_group_videos
check_for_new_streams_begin_NoSkip ==
    /\ g_pc = "poll"
    /\ g_pc' = "fetch"
    /\ g_feed' = NoFeed
    /\ UNCHANGED <<active_translations, mon, seen_streams, wall, g_phase,
                   g_queue, g_mon, h_pc, h_queue, h_mon, stream_started>>
    /\ UNCHANGED <<pvvars, clvars, cachevars, rlvars, scvars, monvars>>
check_for_new_streams_begin ==
    /\ g_pc = "poll"
    /\ g_pc' = IF Registered # {} THEN "sleep" ELSE "fetch"
    /\ g_feed' = NoFeed
    /\ UNCHANGED <<active_translations, mon, seen_streams, wall, g_phase,
                   g_queue, g_mon, h_pc, h_queue, h_mon,
                   stream_started>>
    /\ UNCHANGED <<pvvars, clvars, cachevars, rlvars, scvars, monvars>>

\* check_for_new_streams from the return of get_group_videos
check_for_new_streams(ok) ==
    /\ g_pc = "fetch"
    /\ g_feed' = GroupVideos(ok)
    /\ LET potential_live_videos ==
               SelectSeq(GroupVideos(ok), LAMBDA v : PotentialLive(wall[v]))
           v == Head(potential_live_videos)
       IN  IF potential_live_videos = <<>> \/ get_video_url(v) \in Registered
           THEN g_pc' = "sleep" /\ UNCHANGED <<seen_streams, g_queue>>
           ELSE IF is_live_stream(wall[v])
                THEN IF NotSeen(v)
                     THEN /\ seen_streams' = seen_streams \cup {v}
                          /\ g_queue' = <<v>>
                          /\ g_pc' = "new_notify"
                     ELSE g_pc' = "sleep" /\ UNCHANGED <<seen_streams, g_queue>>
           ELSE IF is_stream_ended(wall[v]) /\ v \in seen_streams
                THEN /\ seen_streams' = seen_streams \ {v}
                     /\ g_queue' = <<v>>
                     /\ g_pc' = "ended_notify"
           ELSE g_pc' = "sleep" /\ UNCHANGED <<seen_streams, g_queue>>
    /\ UNCHANGED <<active_translations, mon, wall, g_phase, g_mon, h_pc,
                   h_queue, h_mon, stream_started>>
    /\ UNCHANGED <<pvvars, clvars, cachevars, rlvars, scvars, monvars>>

\* handle_ended_stream after its message
handle_ended_stream ==
    /\ g_pc = "ended_notify"
    /\ LET stream_url == get_video_url(Head(g_queue))
       IN  IF stream_url \in Registered
           THEN /\ mon' = [mon EXCEPT
                             ![active_translations[stream_url]].is_active = FALSE]
                /\ active_translations' =
                      [active_translations EXCEPT ![stream_url] = 0]
           ELSE UNCHANGED <<mon, active_translations>>
    /\ g_queue' = <<>>
    /\ g_pc' = "sleep"
    /\ UNCHANGED <<seen_streams, wall, g_phase, g_mon, h_pc, h_queue, h_mon,
                   stream_started, g_feed>>
    /\ UNCHANGED <<pvvars, clvars, cachevars, rlvars, scvars, monvars>>

\* asyncio.sleep(30) of the polling loop is over
group_sleep_wake ==
    /\ g_pc = "sleep"
    /\ g_pc' = "poll"
    /\ UNCHANGED <<active_translations, mon, seen_streams, wall, g_phase,
                   g_queue, g_mon, h_pc, h_queue, h_mon,
                   stream_started, g_feed>>
    /\ UNCHANGED <<pvvars, clvars, cachevars, rlvars, scvars, monvars>>

\* the provider: a video of the group goes live, a live stream finishes
stream_changes(v) ==
    /\ wall[v] # Finished
    /\ wall' = [wall EXCEPT ![v] = IF wall[v] = NotAStream THEN Started
                                   ELSE Finished]
    /\ UNCHANGED <<active_translations, mon, seen_streams, g_pc, g_phase,
                   g_queue, g_mon, h_pc, h_queue, h_mon,
                   stream_started, g_feed>>
    /\ UNCHANGED <<pvvars, clvars, cachevars, rlvars, scvars, monvars>>

-----------------------------------------------------------------------------
(* The result cache of VKClient.get_video_info (src/api/vk_client.py) *)

\* cache_key = f"{owner_id}_{video_id}": one key per video
CacheKeys == 1..NumCacheKeys

\* the tasks that call get_video_info (check_comments of two monitors); the
\* call site, translation_monitor.py:78, leaves use_cache at its default
Requesters == {1, 2}

\* what video.get can return for a video, as far as its state goes
Payloads == {"started", "finished"}

\* a key that is not in _video_info_cache
NoEntry == [val |-> "none", time |-> -1]

\* no get_video_info has returned yet
NoResult == [kind |-> "none", val |-> "none"]

\* "if current_time - cache_time < self._cache_ttl"
CacheFresh_Inclusive(current_time, cache_time) ==
    current_time - cache_time <= cache_ttl
CacheFresh(current_time, cache_time) ==
    current_time - cache_time < cache_ttl

Entries(c) == {k \in DOMAIN c : c[k] # NoEntry}

\* "del self._video_info_cache[key]": the key leaves the dict
Without(order, k) == SelectSeq(order, LAMBDA x : x # k)

\* self._video_info_cache[cache_key] = ...: a new key goes to the end of
\* the dict, a key that is there keeps its place
WithKey(order, k) ==
    IF \E i \in 1..Len(order) : order[i] = k THEN order ELSE Append(order, k)

\* the first item of sorted(cache.items(), key=lambda x: x[1][1]): the
\* smallest time, and among equal times the first in dict order
FirstSorted(c, order) ==
    order[CHOOSE i \in 1..Len(order) :
            \A j \in 1..Len(order) :
                \/ c[order[i]].time < c[order[j]].time
                \/ c[order[i]].time = c[order[j]].time /\ i <= j]

\* "if len(self._video_info_cache) > 100": the items sorted_cache[:-100]
\* are deleted, which leaves the 100 with the largest times
RECURSIVE EvictOldest(_, _)
EvictOldest(c, order) ==
    IF Len(order) <= cache_max_entries
    THEN [cache |-> c, order |-> order]
    ELSE LET k == FirstSorted(c, order)
         IN  EvictOldest([c EXCEPT ![k] = NoEntry], Without(order, k))

\* get_video_info up to the retry loop: current_time is taken and the
\* cache is looked up, vk_client.py:175-186
CacheLookup(r, k, use_cache) ==
    /\ c_pc[r] = "idle"
    /\ c_key' = [c_key EXCEPT ![r] = k]
    /\ IF use_cache /\ cache[k] # NoEntry /\ CacheFresh(now, cache[k].time)
       THEN /\ c_result' = [c_result EXCEPT
                               ![r] = [kind |-> "hit", val |-> cache[k].val]]
            /\ UNCHANGED <<cache, cache_order, c_pc, c_t0>>
       ELSE /\ IF use_cache /\ cache[k] # NoEntry
               THEN /\ cache' = [cache EXCEPT ![k] = NoEntry]
                    /\ cache_order' = Without(cache_order, k)
               ELSE UNCHANGED <<cache, cache_order>>
            /\ c_pc' = [c_pc EXCEPT ![r] = "fetching"]
            /\ c_t0' = [c_t0 EXCEPT ![r] = now]
            /\ c_result' = [c_result EXCEPT ![r] = NoResult]
    /\ UNCHANGED stored_at

get_video_info(r, k, use_cache) ==
    /\ CacheLookup(r, k, use_cache)
    /\ UNCHANGED <<pvvars, clvars, rlvars, scvars, monvars, regvars>>

\* get_video_info from the return of video.get, after the waits of the rate
\* limiter and the retries: the result is stored with the current_time of
\* the start of the call, vk_client.py:203-276
CacheStore(r, out, val) ==
    /\ c_pc[r] = "fetching"
    /\ IF out = "ok"
       THEN /\ LET kept == EvictOldest(
                               [cache EXCEPT ![c_key[r]] =
                                   [val |-> val, time |-> c_t0[r]]],
                               WithKey(cache_order, c_key[r]))
               IN  /\ cache' = kept.cache
                   /\ cache_order' = kept.order
            /\ stored_at' = [stored_at EXCEPT ![c_key[r]] = now]
            /\ c_result' = [c_result EXCEPT
                   ![r] = [kind |-> "fetched", val |-> val]]
       ELSE /\ c_result' = [c_result EXCEPT
                   ![r] = [kind |-> out, val |-> "none"]]
            /\ UNCHANGED <<cache, cache_order, stored_at>>
    /\ c_pc' = [c_pc EXCEPT ![r] = "idle"]
    /\ c_t0' = [c_t0 EXCEPT ![r] = 0]
    /\ UNCHANGED c_key

get_video_info_return(r, out, val) ==
    /\ CacheStore(r, out, val)
    /\ UNCHANGED <<pvvars, clvars, rlvars, scvars, monvars, regvars>>

-----------------------------------------------------------------------------
(* The poll loop of a monitor over the cached get_video_info *)

\* The monitor is requester 1 of the shared cache and asks for key 1
TheMonitor == 1
TheVideo == 1

\* what video.get answers for the monitored video at this moment
ProviderStatus == IF stream_ended_at < 0 THEN "started" ELSE "finished"

\* the video dictionary of a stream with that live_status
StreamInfo(status) ==
    [live |-> IF status = "started" THEN 1 ELSE -1, live_status |-> status,
     is_mobile_live |-> FALSE, type |-> "live"]

\* check_comments from its start to the cache lookup of get_video_info: a
\* fresh entry is returned and classified at once, otherwise video.get is
\* called (translation_monitor.py:78-97, vk_client.py:175-186)
check_comments_lookup_NoExpiry ==
    /\ m_pc = "info"
    /\ c_pc[TheMonitor] = "idle"
    /\ IF cache[TheVideo] # NoEntry
       THEN /\ c_result' = [c_result EXCEPT ![TheMonitor] =
                               [kind |-> "hit", val |-> cache[TheVideo].val]]
            /\ InfoStep("video", StreamInfo(cache[TheVideo].val), 0)
            /\ UNCHANGED <<cache, cache_order, stored_at, c_pc, c_key, c_t0>>
       ELSE /\ CacheLookup(TheMonitor, TheVideo, TRUE)
            /\ UNCHANGED monvars
    /\ UNCHANGED <<pvvars, clvars, rlvars, scvars, regvars>>

check_comments_lookup ==
    /\ m_pc = "info"
    /\ CacheLookup(TheMonitor, TheVideo, TRUE)
    /\ IF c_result'[TheMonitor].kind = "hit"
       THEN InfoStep("video", StreamInfo(c_result'[TheMonitor].val), 0)
       ELSE UNCHANGED monvars
    /\ UNCHANGED <<pvvars, clvars, rlvars, scvars, regvars>>

\* check_comments once video.get has answered or raised: the answer is
\* stored and classified (vk_client.py:203-232, translation_monitor.py:80-97)
check_comments_answer(out) ==
    /\ m_pc = "info"
    /\ CacheStore(TheMonitor, out, IF out = "ok" THEN ProviderStatus ELSE "none")
    /\ IF out = "ok"
       THEN InfoStep("video", StreamInfo(ProviderStatus), 0)
       ELSE InfoStep("error", NoVideoInfo, 0)
    /\ UNCHANGED <<pvvars, clvars, rlvars, scvars, regvars>>

\* the outcomes of video.get: it succeeds once the stream has ended
FetchOutcomes == IF stream_ended_at < 0 THEN {"ok", "raised"} ELSE {"ok"}

\* another client of the same class-level cache asks for the same video
other_get_video_info == get_video_info(2, TheVideo, TRUE)

other_get_video_info_return == get_video_info_return(2, "ok", ProviderStatus)

\* the broadcast ends: from now on video.get reports live_status finished
stream_ends ==
    /\ stream_ended_at < 0
    /\ now + cache_ttl <= ConvergeMaxTime
    /\ stream_ended_at' = now
    /\ UNCHANGED <<clvars, cachevars, rlvars, scvars, monvars, regvars>>

-----------------------------------------------------------------------------
(* The classification of one video dictionary (src/api/vk_client.py) *)

Verdict(b) == IF b THEN "yes" ELSE "no"

\* a caller holds a video dictionary of the provider
take_video(video) ==
    /\ cl_video' = video
    /\ cl_live' = "unknown"
    /\ cl_ended' = "unknown"
    /\ UNCHANGED <<pvvars, cachevars, rlvars, scvars, monvars, regvars>>

\* self.vk_client.is_live_stream(video)
classify_live ==
    /\ cl_live = "unknown"
    /\ cl_live' = Verdict(is_live_stream(cl_video))
    /\ UNCHANGED <<cl_video, cl_ended>>
    /\ UNCHANGED <<pvvars, cachevars, rlvars, scvars, monvars, regvars>>

\* self.vk_client.is_stream_ended(video)
classify_ended ==
    /\ cl_ended = "unknown"
    /\ cl_ended' = Verdict(is_stream_ended(cl_video))
    /\ UNCHANGED <<cl_video, cl_live>>
    /\ UNCHANGED <<pvvars, cachevars, rlvars, scvars, monvars, regvars>>

-----------------------------------------------------------------------------
(* Initial states and specifications *)

\* VKRateLimiter.__init__ and idle caller tasks
LimiterInitAt(cs, t) ==
    /\ now = t
    /\ last_call_time = 0
    /\ call_times = <<>>
    /\ lock = 0
    /\ waiters = <<>>
    /\ pc = [c \in cs |-> "idle"]
    /\ op = [c \in cs |-> "get_video_info"]
    /\ retry_count = [c \in cs |-> 0]
    /\ wake = [c \in cs |-> 0]
    /\ outcome = [c \in cs |-> "ok"]
    /\ result = [c \in cs |-> "none"]
    /\ calls = [c \in cs |-> 0]
    /\ backoffs = [c \in cs |-> <<>>]
    /\ grants = <<>>
    /\ notified = [c \in cs |-> 0]
    /\ done_at = [c \in cs |-> -1]

LimiterInit(cs) == LimiterInitAt(cs, min_delay)

\* VKTranslationMonitor.__init__
MonitorInitWith(existing, ids) ==
    /\ current_score = <<0, 0>>
    /\ message_history = <<>>
    /\ seen_comments = {}
    /\ is_active = TRUE
    /\ m_pc = "created"
    /\ new_comments = <<>>
    /\ posted = existing
    /\ sent = <<>>
    /\ fed = <<>>
    /\ processed = [i \in 1..ids |-> 0]
    /\ returned = [i \in 1..ids |-> 0]
    /\ user_msgs = <<>>
    /\ stop_reason = "none"
    /\ tick_error = "none"
    /\ primed_upto = -1
    /\ notify_raised = FALSE

MonitorInit == MonitorInitWith(<<>>, MaxComments + 1)

\* the module globals of telegram_commands and VKGroupStreamMonitor.__init__
RegistryInit ==
    /\ active_translations = [u \in Urls |-> 0]
    /\ mon = [m \in MonIds |->
                [url |-> get_video_url(1), is_active |-> TRUE, task |-> "unbuilt"]]
    /\ seen_streams = {}
    /\ wall = [v \in Videos |-> NotAStream]
    /\ g_pc = "start"
    /\ g_phase = "startup"
    /\ g_queue = <<>>
    /\ g_mon = 0
    /\ h_pc = "idle"
    /\ h_queue = <<>>
    /\ h_mon = 0
    /\ stream_started = {}
    /\ g_feed = NoFeed

\* VKClient.__init__ and the class attribute _video_info_cache = {}
CacheInit ==
    /\ cache = [k \in CacheKeys |-> NoEntry]
    /\ cache_order = <<>>
    /\ stored_at = [k \in CacheKeys |-> -1]
    /\ c_pc = [r \in Requesters |-> "idle"]
    /\ c_key = [r \in Requesters |-> 1]
    /\ c_t0 = [r \in Requesters |-> 0]
    /\ c_result = [r \in Requesters |-> NoResult]

ClassifyInit ==
    /\ cl_video = NoVideoInfo
    /\ cl_live = "unknown"
    /\ cl_ended = "unknown"
    /\ stream_ended_at = -1

Init ==
    /\ LimiterInit(Callers)
    /\ MonitorInit
    /\ RegistryInit
    /\ CacheInit
    /\ ClassifyInit

Tick == Advance(MaxTime)

RLNext ==
    \/ \E c \in Callers, o \in Ops : Begin(c, o)
    \/ \E c \in Callers : wait_if_needed(c)
    \/ \E c \in Callers : wait_window_wake(c)
    \/ \E c \in Callers : wait_delay_wake(c)
    \/ \E c \in Callers, out \in Outcomes : remote_return(c, out)
    \/ \E c \in Callers : mark_call_complete(c)
    \/ \E c \in Callers : backoff_wake(c)
    \/ \E c \in Callers : handle_rate_limit_error(c)
    \/ Tick

SpecRL == Init /\ [][RLNext]_vars

RetryTick == Advance(RetryMaxTime)

RetryInit ==
    /\ LimiterInit(RetryCallers)
    /\ MonitorInit
    /\ RegistryInit
    /\ CacheInit
    /\ ClassifyInit

RetryNext ==
    \/ \E c \in RetryCallers, o \in Ops : Begin(c, o)
    \/ \E c \in RetryCallers : wait_if_needed(c)
    \/ \E c \in RetryCallers : wait_window_wake(c)
    \/ \E c \in RetryCallers : wait_delay_wake(c)
    \/ \E c \in RetryCallers, out \in Outcomes : remote_return(c, out)
    \/ \E c \in RetryCallers : mark_call_complete(c)
    \/ \E c \in RetryCallers : backoff_wake(c)
    \/ \E c \in RetryCallers : handle_rate_limit_error(c)
    \/ RetryTick

SpecRetry == RetryInit /\ [][RetryNext]_vars

ScoreNext == \E text \in CommentTexts, sink_ok \in BOOLEAN : FeedComment(text, sink_ok)

SpecScore == Init /\ [][ScoreNext]_vars

HistoryNext == \E inp \in MatchInputs : FeedGoal(inp[1], inp[2])

SpecHistory == Init /\ [][HistoryNext]_vars

MonitorNext ==
    \/ \E raised \in 0..1 : start_monitoring(raised)
    \/ \E ok \in BOOLEAN : process_existing_comments(VisibleComments, ok)
    \/ \E video \in TickVideos :
          \E raised \in 0..InfoSends("video", video) :
              check_comments_info("video", video, raised)
    \/ \E kind \in ProviderErrors \cup {"none"}, raised \in 0..1 :
          check_comments_info(kind, NoVideoInfo, raised)
    \/ \E resp \in Responses : check_comments_fetched(resp, "ok", 0)
    \/ \E kind \in ProviderErrors, raised \in 0..1 :
          check_comments_fetched(<<>>, kind, raised)
    \/ \E sink_ok \in BOOLEAN : send_new_comment(sink_ok)
    \/ sleep_wake
    \/ stop_request
    \/ \E text \in PostableTexts : post_comment(text)

SpecMonitor == Init /\ [][MonitorNext]_vars

RegistryNext ==
    \/ \E m \in MonIds : task_start_monitoring(m)
    \/ \E m \in MonIds, verdict \in {"continue", "ended", "not_found"} :
          task_check_comments(m, verdict)
    \/ \E url \in Urls : monitor_command(url)
    \/ monitor_command_task
    \/ \E url \in Urls : stop_command(url)
    \/ \E url \in Urls : remove_translation_callback(url)
    \/ catch_existing_command
    \/ \E ok \in BOOLEAN : catch_existing_fetched(ok)
    \/ catch_existing_next
    \/ catch_existing_register
    \/ \E ok \in BOOLEAN : start_polling(ok)
    \/ handle_new_stream
    \/ handle_new_stream_task
    \/ check_for_new_streams_begin
    \/ \E ok \in BOOLEAN : check_for_new_streams(ok)
    \/ handle_ended_stream
    \/ group_sleep_wake
    \/ \E v \in Videos : stream_changes(v)

SpecRegistry == Init /\ [][RegistryNext]_vars

\* The group monitor with the commands that fill and empty the registry
DiscoveryNext ==
    \/ \E url \in Urls : monitor_command(url)
    \/ monitor_command_task
    \/ \E url \in Urls : remove_translation_callback(url)
    \/ \E ok \in BOOLEAN : start_polling(ok)
    \/ handle_new_stream
    \/ handle_new_stream_task
    \/ check_for_new_streams_begin
    \/ \E ok \in BOOLEAN : check_for_new_streams(ok)
    \/ handle_ended_stream
    \/ group_sleep_wake
    \/ \E v \in Videos : stream_changes(v)

SpecDiscovery == Init /\ [][DiscoveryNext]_vars

CacheTick == Advance(CacheMaxTime)

CacheNext ==
    \/ \E r \in Requesters, k \in CacheKeys : get_video_info(r, k, TRUE)
    \/ \E r \in Requesters, val \in Payloads :
          get_video_info_return(r, "ok", val)
    \/ \E r \in Requesters, out \in {"not_found", "raised"} :
          get_video_info_return(r, out, "none")
    \/ CacheTick

SpecCache == Init /\ [][CacheNext]_vars

\* A cache that has reached its capacity: key 1 was asked for at min_delay
\* and, when slow, only answered after a rate-limit backoff; key 2 was asked
\* for and answered one call later; the keys 3..100 followed, one call every
\* min_delay.  Key 101 has not been asked for yet.
FullKeys == 1..(cache_max_entries + 1)

RequestedAt(k) == IF k <= 2 THEN k * min_delay ELSE (k + 1) * min_delay

AnsweredAt(k, slow) ==
    IF k = 1 /\ slow THEN RequestedAt(1) + 2 * min_delay ELSE RequestedAt(k)

FullStart == (cache_max_entries + 2) * min_delay

FullCacheInit ==
    \E slow \in BOOLEAN :
        /\ cache = [k \in FullKeys |->
                      IF k > cache_max_entries THEN NoEntry
                      ELSE [val |-> "started", time |-> RequestedAt(k)]]
        /\ cache_order = [i \in 1..cache_max_entries |->
                            IF slow /\ i <= 2 THEN 3 - i ELSE i]
        /\ stored_at = [k \in FullKeys |->
                          IF k > cache_max_entries THEN -1
                          ELSE AnsweredAt(k, slow)]
        /\ c_pc = [r \in Requesters |-> "idle"]
        /\ c_key = [r \in Requesters |-> 1]
        /\ c_t0 = [r \in Requesters |-> 0]
        /\ c_result = [r \in Requesters |-> NoResult]

FullInit ==
    /\ LimiterInitAt(Callers, FullStart)
    /\ MonitorInit
    /\ RegistryInit
    /\ FullCacheInit
    /\ ClassifyInit

FullTick == Advance(FullStart + FullSpan)

\* the keys asked for once the cache is full
AskedKeys == {1, cache_max_entries + 1}

FullNext ==
    \/ \E r \in Requesters, k \in AskedKeys : get_video_info(r, k, TRUE)
    \/ \E r \in Requesters, val \in Payloads :
          get_video_info_return(r, "ok", val)
    \/ \E r \in Requesters, out \in {"not_found", "raised"} :
          get_video_info_return(r, out, "none")
    \/ FullTick

SpecFullCache == FullInit /\ [][FullNext]_vars

ClassifyNext ==
    \/ \E video \in VideoInfos : take_video(video)
    \/ classify_live
    \/ classify_ended

SpecClassify == Init /\ [][ClassifyNext]_vars

\* Priming over every short list of comments, score texts in any order
PrimeNext ==
    \/ \E text \in CommentTexts : post_comment(text)
    \/ start_monitoring(0)
    \/ \E ok \in BOOLEAN : process_existing_comments(VisibleComments, ok)

SpecPrime == Init /\ [][PrimeNext]_vars

ConvergeTick == Advance(ConvergeMaxTime)

\* the steps of the monitor's own task
ConvergeMonitorStep ==
    \/ start_monitoring(0)
    \/ \E ok \in BOOLEAN : process_existing_comments(VisibleComments, ok)
    \/ check_comments_lookup
    \/ \E out \in FetchOutcomes : check_comments_answer(out)
    \/ \E resp \in Responses : check_comments_fetched(resp, "ok", 0)
    \/ sleep_wake

ConvergeNext ==
    \/ ConvergeMonitorStep
    \/ other_get_video_info
    \/ other_get_video_info_return
    \/ stream_ends
    \/ ConvergeTick

\* The event loop runs every task that is ready and time passes
SpecConverge ==
    /\ Init
    /\ [][ConvergeNext]_vars
    /\ WF_vars(ConvergeMonitorStep)
    /\ WF_vars(ConvergeTick)

-----------------------------------------------------------------------------
(* Claims about the rate limiter and the retry loop *)

\* C1: under any interleaving of concurrent callers of wait_if_needed, any
\* two distinct granted calls have grant timestamps at least min_delay (20 s)
\* apart.
C1_GrantSpacing ==
    \A i, j \in 1..Len(grants) :
        i < j => grants[j] - grants[i] >= 20

\* Both callers have been granted, the second as early as the limiter allows.
C1_Witness ==
    /\ \A c \in Callers : calls[c] >= 1
    /\ Len(grants) >= 2
    /\ grants[Len(grants)] - grants[Len(grants) - 1] = 20
    /\ \E c \in Callers : pc[c] = "calling"

\* C2: at every moment at most max_calls_per_minute (3) grants lie in the
\* trailing 60 s window; a caller that finds the window full sleeps until the
\* oldest timestamp of the window is 60 s old, and wakes into the per-call
\* spacing check (it is granted only min_delay after last_call_time).
GrantsInWindow == {i \in 1..Len(grants) : now - grants[i] < 60}

WindowQuotaInv ==
    /\ Cardinality(GrantsInWindow) <= 3
    /\ \A c \in Callers :
          pc[c] = "w_window" =>
              /\ Len(call_times) >= 3
              /\ \A i \in 1..Len(call_times) : wake[c] <= call_times[i] + 60
              /\ \E i \in 1..Len(call_times) : wake[c] = call_times[i] + 60

WindowWakeStep ==
    \A c \in Callers :
        (pc[c] = "w_window" /\ pc'[c] # "w_window") =>
            /\ now >= wake[c]
            /\ \/ pc'[c] = "w_delay" /\ wake'[c] = last_call_time + 20
               \/ pc'[c] = "calling" /\ now - last_call_time >= 20

C2_WindowQuota == []WindowQuotaInv /\ [][WindowWakeStep]_vars

\* A caller sleeps because the window is full.
C2_Witness ==
    \E c \in Callers :
        /\ pc[c] = "w_window"
        /\ Cardinality(GrantsInWindow) = 3
        /\ wake[c] > now

\* C3: at no time are two remote calls in flight at once.
C3_OneCallInFlight ==
    Cardinality({c \in Callers : pc[c] = "calling"}) <= 1

\* C10: a rate-limited failure is followed by a sleep of 10 * 2^attempt
\* seconds (10, 20, 40) and a retry; after max_retries (3) retries the error
\* is raised; one invocation makes at most 4 remote calls.
BackoffSchedule == <<10, 20, 40>>

C10_BoundedRetry ==
    \A c \in RetryCallers :
        /\ calls[c] <= 4
        /\ retry_count[c] <= 3
        /\ Len(backoffs[c]) <= 3
        /\ backoffs[c] = SubSeq(BackoffSchedule, 1, Len(backoffs[c]))
        /\ pc[c] = "backoff" =>
              /\ outcome[c] = "rate_limited"
              /\ wake[c] = last_call_time + backoffs[c][Len(backoffs[c])]
              /\ Len(backoffs[c]) = retry_count[c] + 1
        /\ pc[c] \in {"calling", "c_lock"} =>
              /\ calls[c] = retry_count[c] + 1
              /\ Len(backoffs[c]) = retry_count[c]
        /\ result[c] = "raised_rate_limited" =>
              /\ pc[c] = "idle"
              /\ calls[c] = 4
              /\ backoffs[c] = BackoffSchedule
              /\ notified[c] = 1
        /\ (pc[c] = "idle" /\ outcome[c] = "rate_limited"
              /\ op[c] # "get_group_videos" /\ calls[c] = 4) =>
              result[c] = "raised_rate_limited"

\* All three retries of one invocation failed and the error was raised.
C10_Witness ==
    \E c \in RetryCallers :
        /\ result[c] = "raised_rate_limited"
        /\ calls[c] = 4
        /\ now = 180

\* C11: when the remote call fails with an error other than rate-limited,
\* the invocation makes no further remote call and sleeps no backoff: the
\* error is reported to the error notifier exactly once and raised to the
\* caller.
C11_OtherErrorPropagates ==
    \A c \in Callers :
        outcome[c] = "api_error" =>
            /\ pc[c] \in {"c_lock", "idle"} \/ result[c] = "none"
            /\ (pc[c] = "idle" /\ result[c] # "none") =>
                  /\ result[c] = "raised_api_error"
                  /\ notified[c] = 1

\* C12: each of the three provider operations is retried with backoff when
\* rate-limited; a rate-limited group video fetch that persists is raised to
\* the caller and reported through the error notifier, never turned into an
\* empty result.
C12_GroupFetchRetried ==
    \A c \in Callers :
        (outcome[c] = "rate_limited" /\ pc[c] = "idle" /\ result[c] # "none") =>
            /\ result[c] = "raised_rate_limited"
            /\ calls[c] = max_retries + 1
            /\ notified[c] = 1

-----------------------------------------------------------------------------
(* Claims about one monitor: seen comments, score events, end of stream *)

\* C4: within one monitor each comment id is handed to
\* send_comment_to_channel at most once, however many polls return it and in
\* whatever order or repetition.
TimesQueued(i) ==
    Cardinality({k \in 1..Len(new_comments) : new_comments[k].id = i})

C4_OncePerComment ==
    \A i \in DOMAIN processed : processed[i] + TimesQueued(i) <= 1

\* A comment that two polls returned has been processed once.
C4_Witness ==
    \E i \in DOMAIN processed : returned[i] = 2 /\ processed[i] = 1

\* C6: the scores carried by successive emitted goal events never decrease
\* in either component.
Delivered == SelectSeq(sent, LAMBDA x : x.ok)

C6_ScoresNonDecreasing ==
    \A i, j \in 1..Len(Delivered) :
        i < j => /\ Delivered[j].ev.our >= Delivered[i].ev.our
                 /\ Delivered[j].ev.opp >= Delivered[i].ev.opp

\* C7: a comment parsed as (newOurs, newTheirs, surname) in state
\* (ours, theirs) emits OwnGoal(newOurs, newTheirs, surname) iff
\* newOurs > ours, otherwise OpponentGoal(newOurs, newTheirs) iff
\* newTheirs > theirs; in both cases the state becomes (newOurs, newTheirs).
\* From (0,0) the comments 0-0, 1-0 Smith, 1-0 Smith, 1-1, 2-1 Jones give
\* exactly OwnGoal(1,0,Smith), OpponentGoal(1,1), OwnGoal(2,1,Jones).
ScoreStep ==
    fed' # fed =>
        LET p == parse_score_comment(fed'[Len(fed')])
            own == p.ok /\ p.our > current_score[1]
            opp == p.ok /\ ~(p.our > current_score[1]) /\ p.opp > current_score[2]
            last == sent'[Len(sent')]
        IN  /\ own => /\ Len(sent') = Len(sent) + 1
                      /\ SubSeq(sent', 1, Len(sent)) = sent
                      /\ last.ev = [kind |-> "own", our |-> p.our,
                                    opp |-> p.opp, surname |-> p.surname]
                      /\ current_score' = <<p.our, p.opp>>
            /\ opp => /\ Len(sent') = Len(sent) + 1
                      /\ SubSeq(sent', 1, Len(sent)) = sent
                      /\ last.ev = [kind |-> "opp", our |-> p.our,
                                    opp |-> p.opp, surname |-> ""]
                      /\ current_score' = <<p.our, p.opp>>
            /\ (~own /\ ~opp) => sent' = sent /\ current_score' = current_score

ExampleComments ==
    << ScoreText(0, 0, ""), ScoreText(1, 0, "Smith"), ScoreText(1, 0, "Smith"),
       ScoreText(1, 1, ""), ScoreText(2, 1, "Jones") >>

ExampleEvents ==
    << [kind |-> "own", our |-> 1, opp |-> 0, surname |-> "Smith"],
       [kind |-> "opp", our |-> 1, opp |-> 1, surname |-> ""],
       [kind |-> "own", our |-> 2, opp |-> 1, surname |-> "Jones"] >>

ExampleRun ==
    fed = ExampleComments =>
        /\ [i \in 1..Len(sent) |-> sent[i].ev] = ExampleEvents
        /\ current_score = <<2, 1>>

C7_ScoreTransitions == [][ScoreStep]_vars /\ []ExampleRun

\* C8: a monitor whose metadata fetch reports the stream finished stops on
\* that tick and emits exactly one stream-ended notification.
EndedMessages ==
    {i \in 1..Len(user_msgs) : user_msgs[i] \in {"ended_system", "ended_user"}}

C8_EndedStopsOnce ==
    stop_reason = "ended" =>
        /\ m_pc = "stopped"
        /\ ~is_active
        /\ Cardinality(EndedMessages) = 1

\* C13: when a provider call of a tick fails with an access-denied error the
\* monitor goes to Stopped and performs no further tick.
C13_AccessDeniedStops ==
    tick_error = "access_denied" => m_pc = "stopped"

\* C14: a provider error of a tick that is not access denied leaves the
\* monitor polling: the tick is skipped with the seen set and the score state
\* as they were, and the next tick takes place after the interval.
TickSkipped ==
    (m_pc \in {"info", "comments"} /\ m_pc' # m_pc /\ tick_error' = "error") =>
        /\ m_pc' = "sleep"
        /\ UNCHANGED <<seen_comments, current_score, message_history, is_active>>

NextTickAfterInterval ==
    (m_pc = "sleep" /\ tick_error = "error" /\ is_active /\ m_pc' # m_pc) =>
        m_pc' = "info"

C14_ErrorSkipsTick == [][TickSkipped /\ NextTickAfterInterval]_vars

C14_Witness ==
    /\ tick_error = "error"
    /\ m_pc = "info"
    /\ is_active
    /\ seen_comments # {}

\* C15: after an external stop request, in any state, priming included, the
\* monitor begins no metadata fetch and no comment fetch.
C15_NoFetchAfterStop ==
    [][(~is_active /\ m_pc' # m_pc) =>
          m_pc' \notin {"priming", "info", "comments"}]_vars

\* C15, amended: after an external stop request, in any state, priming
\* included, the monitor starts no further tick; the priming or the tick
\* under way runs to its end.
C15_NoTickAfterStop ==
    [][(~is_active /\ m_pc' # m_pc) => m_pc' # "info"]_vars

C15_Witness ==
    /\ m_pc = "stopped"
    /\ stop_reason = "inactive"
    /\ \E i \in DOMAIN returned : returned[i] > 0

\* C16: no goal event is emitted for a comment that was visible when the
\* monitor started; the priming fetch has put every such comment into the
\* seen set before the first tick examines comments.
C16_NoHistoricGoals ==
    [][sent' # sent =>
          /\ primed_upto >= 0
          /\ Head(new_comments).id > primed_upto]_vars

-----------------------------------------------------------------------------
(* Claims about the registry *)

\* C5: at most one monitor task is running for a given video at any time,
\* under any interleaving of /monitor, /catch_existing, the remove callback
\* and group discovery.
RunningFor(v) ==
    {m \in MonIds : /\ mon[m].task \in {"created", "running"}
                    /\ mon[m].is_active
                    /\ parse_video_url(mon[m].url) = v}

C5_OneTaskPerVideo == \A v \in Videos : Cardinality(RunningFor(v)) <= 1

\* C9: a monitor whose polling loop has exited has no entry in
\* active_translations.
C9_StoppedDeregistered ==
    \A u \in Urls :
        active_translations[u] # 0 => mon[active_translations[u]].task # "done"

\* C17: when the group monitor starts, its priming fetch adds every stream
\* that is live at that time to the seen-streams set and emits no
\* stream-started notification for those streams.
C17_SilentStartup ==
    \A n \in stream_started : n.phase # "startup"

\* C18: both seen sets are append-only: no comment id is ever removed from a
\* monitor's seen-comments set and no stream key is ever removed from the
\* group monitor's seen-streams set.
C18_SeenSetsAppendOnly ==
    [][/\ seen_comments \subseteq seen_comments'
       /\ seen_streams \subseteq seen_streams']_vars

-----------------------------------------------------------------------------
(* Claims about the result cache *)

\* C19: a value stored in the cache is stamped with the time at which it is
\* stored, so that a lookup of the key right after the store is answered
\* from the cache and a lookup made once the lifetime of 30 s has passed
\* since the store is a miss.
C19_StampedAtStore ==
    \A k \in CacheKeys :
        cache[k] # NoEntry =>
            /\ cache[k].time = stored_at[k]
            /\ stored_at[k] = now => CacheFresh(now, cache[k].time)
            /\ now - stored_at[k] >= cache_ttl =>
                  ~CacheFresh(now, cache[k].time)

\* C20: a lookup is answered from the cache, with no rate limiter and no
\* provider call, only if the entry of the key is younger than the lifetime
\* of 30 s; an older entry is removed and the value is fetched again.
GetStep(r) ==
    /\ c_pc[r] = "idle"
    /\ <<c_pc[r], c_key[r], c_result[r]>>' # <<c_pc[r], c_key[r], c_result[r]>>

LookupStep(r) ==
    LET k == c_key'[r]
        e == cache[k]
    IN  /\ (c_pc'[r] = "idle" /\ c_result'[r].kind = "hit") =>
              /\ e # NoEntry
              /\ now - e.time < cache_ttl
              /\ now - stored_at[k] < cache_ttl
              /\ c_result'[r].val = e.val
              /\ cache' = cache
        /\ (e # NoEntry /\ now - e.time >= cache_ttl) =>
              /\ cache'[k] = NoEntry
              /\ c_pc'[r] = "fetching"
        /\ e = NoEntry => c_pc'[r] = "fetching"

C20_FreshHitsOnly ==
    [][\A r \in Requesters : GetStep(r) => LookupStep(r)]_vars

C20_Witness ==
    \E r \in Requesters :
        /\ c_pc[r] = "idle"
        /\ c_result[r].kind = "hit"
        /\ cache[c_key[r]] = NoEntry

\* C21: after every store the cache holds at most 100 entries, and the
\* eviction for capacity removes only the entries that were inserted first:
\* no evicted entry was inserted later than an entry that is retained.
StoreStep(r) ==
    /\ c_pc[r] = "fetching"
    /\ c_pc'[r] = "idle"
    /\ c_result'[r].kind = "fetched"

Evicted(r) ==
    {k \in DOMAIN cache :
        cache'[k] = NoEntry /\ (cache[k] # NoEntry \/ k = c_key[r])}

C21_EvictsOldestInserted ==
    [][\A r \in Requesters :
          StoreStep(r) =>
              /\ Cardinality(Entries(cache')) <= cache_max_entries
              /\ \A k \in Evicted(r), j \in Entries(cache') :
                    stored_at'[k] <= stored_at'[j]]_vars

-----------------------------------------------------------------------------
(* Claims about the classification of videos *)

\* C22: whatever is_mobile_live and type are, a video with live_status
\* "finished" and live other than 1 is classified as not live; so is the
\* video with live_status "finished", is_mobile_live set and no live field.
C22_FinishedIsNotLive ==
    (/\ cl_live # "unknown"
     /\ cl_video.live_status = "finished"
     /\ cl_video.live # 1) => cl_live = "no"

C22_Witness ==
    /\ cl_video = [live |-> -1, live_status |-> "finished",
                   is_mobile_live |-> TRUE, type |-> "video"]
    /\ cl_live = "no"

-----------------------------------------------------------------------------
(* Claims about the discovery cycle of the group monitor *)

\* C23: a discovery cycle that begins while the registry holds an entry is
\* skipped: it calls the provider for nothing, starts and stops no monitor,
\* and leaves the seen-streams set and the registry as they were.
C23_CycleSkipped ==
    [][(g_pc = "poll" /\ Registered # {} /\ g_pc' # g_pc) =>
          /\ g_pc' = "sleep"
          /\ g_feed' = NoFeed
          /\ UNCHANGED <<seen_streams, active_translations, mon, g_queue,
                         g_mon, stream_started>>]_vars

C23_Witness ==
    /\ g_pc = "sleep"
    /\ g_feed = NoFeed
    /\ Registered # {}

\* C24: a regular discovery cycle looks at the most recent possibly-live
\* video of the feed only, so it starts at most one monitor and stops at
\* most one; it creates and registers a monitor exactly when that video is
\* classified live, is not in the seen-streams set and its url is not in
\* the registry.
Candidates(feed) == SelectSeq(feed, LAMBDA v : PotentialLive(wall[v]))

CycleStep ==
    (g_pc = "fetch" /\ g_pc' # g_pc) =>
        LET cand == Candidates(g_feed')
        IN  /\ g_pc' \in {"new_notify", "ended_notify", "sleep"}
            /\ g_pc' \in {"new_notify", "ended_notify"} =>
                  /\ cand # <<>>
                  /\ g_queue' = <<Head(cand)>>
            /\ g_pc' = "new_notify" <=>
                  /\ cand # <<>>
                  /\ is_live_stream(wall[Head(cand)])
                  /\ Head(cand) \notin seen_streams
                  /\ get_video_url(Head(cand)) \notin Registered

CreateStep ==
    (g_pc = "new_notify" /\ g_phase = "poll" /\ g_pc' # g_pc) =>
        /\ Len(g_queue) = 1
        /\ {m \in MonIds : mon'[m] # mon[m]} = {NewMon}
        /\ mon'[NewMon].url = get_video_url(Head(g_queue))
        /\ active_translations'[get_video_url(Head(g_queue))] = NewMon

StopStep ==
    (g_pc = "ended_notify" /\ g_pc' # g_pc) =>
        /\ Len(g_queue) = 1
        /\ Cardinality({m \in MonIds : mon'[m] # mon[m]}) <= 1

C24_OneCandidatePerCycle == [][CycleStep /\ CreateStep /\ StopStep]_vars

C24_Witness ==
    /\ g_pc = "new_sleep"
    /\ g_phase = "poll"
    /\ mon[g_mon].url = get_video_url(Head(g_queue))

-----------------------------------------------------------------------------
(* Claims about what the user is told when a monitor stops *)

\* C25: every condition that stops a monitor for good (stream ended, video
\* not found, access denied) results in exactly one terminal notification to
\* the registering user.
StoppedForGood ==
    /\ m_pc = "stopped"
    /\ stop_reason \in {"ended", "not_found"}

TerminalMessages ==
    {i \in 1..Len(user_msgs) : user_msgs[i] # "started"}

C25_OneTerminalNotification ==
    StoppedForGood => Cardinality(TerminalMessages) = 1

-----------------------------------------------------------------------------
(* Claims about the rate limiter after a failure and after a release *)

\* C26: when a rate-limited failure has resolved, by a retry that succeeds
\* or by the error being raised once the retries are exhausted, the
\* last-call timestamp stands at least the 10 s safety buffer ahead of the
\* time of the resolution.
ResolvedAfterRateLimit(c) ==
    /\ pc[c] = "c_lock"
    /\ pc'[c] = "idle"
    /\ \/ result'[c] = "returned" /\ retry_count[c] > 0
       \/ result'[c] = "raised_rate_limited"

C26_BufferAfterResolution ==
    [][\A c \in DOMAIN pc :
          ResolvedAfterRateLimit(c) =>
              last_call_time' >= now' + rate_limit_buffer]_vars

\* C27: release re-stamps the last-call timestamp to the completion time of
\* the remote call: every grant that happens after a remote call has
\* completed comes at least min_delay after that completion, whatever the
\* interleaving of one caller's release with another caller's acquire.
Granted(c) == pc[c] # "calling" /\ pc'[c] = "calling"

C27_SpacedFromCompletion ==
    [][\A c \in DOMAIN pc :
          Granted(c) =>
              \A k \in DOMAIN pc :
                  done_at[k] >= 0 => now >= done_at[k] + min_delay]_vars

-----------------------------------------------------------------------------
(* Claims about the end of the stream seen through the cache *)

\* C28: once the provider reports the monitored video as ended and the
\* metadata fetches succeed, the monitor eventually observes the ended state
\* and reaches Stopped; a cached value delays this by at most one cache
\* lifetime: from cache_ttl after the end no tick finds the stream live.
FoundLive == m_pc = "info" /\ m_pc' = "comments"

C28_EndObserved ==
    /\ [][FoundLive =>
            (stream_ended_at < 0 \/ now < stream_ended_at + cache_ttl)]_vars
    /\ (stream_ended_at >= 0) ~> (m_pc = "stopped" /\ stop_reason = "ended")

C28_Witness ==
    /\ stream_ended_at >= 0
    /\ m_pc = "stopped"
    /\ stop_reason = "ended"
    /\ now > stream_ended_at
    /\ c_result[TheMonitor].val = "finished"

-----------------------------------------------------------------------------
(* Claims about failures of the event sink *)

\* C29: an exception raised while a goal, stream-started, stream-ended or
\* error notification is sent never ends the poll loop: the monitor goes on
\* as after a delivered message and, from its sleep, runs the next tick.
GoalRaised == Len(sent') > Len(sent) /\ ~sent'[Len(sent')].ok

NotifyRaised == notify_raised' /\ m_pc' # m_pc

SinkFailureStep ==
    (GoalRaised \/ NotifyRaised) =>
        /\ m_pc' \in {"priming", "sending", "sleep", "stopped"}
        /\ m_pc' = "stopped" => (m_pc = "info" /\ stop_reason' = "ended")
        /\ is_active' # is_active => stop_reason' = "ended"

NextTickRuns ==
    (m_pc = "sleep" /\ is_active /\ m_pc' # m_pc) => m_pc' = "info"

C29_SinkFailureKeepsPolling == [][SinkFailureStep /\ NextTickRuns]_vars

C29_Witness ==
    /\ \E i \in 1..Len(sent) : ~sent[i].ok
    /\ notify_raised
    /\ m_pc = "sleep"
    /\ is_active

-----------------------------------------------------------------------------
(* Claims about priming *)

\* C30: after priming the score state equals the state obtained by replaying
\* the visible score comments oldest-to-newest from (0,0), for every list of
\* visible comments, lists whose scores are not monotone included.
RECURSIVE ReplayScore(_, _)
ReplayScore(comments, score) ==
    IF comments = <<>> THEN score
    ELSE LET p == parse_score_comment(Head(comments).text)
         IN  IF p.ok /\ (OurTeamScored(p, score) \/ OpponentScored(p, score))
             THEN ReplayScore(Tail(comments), <<p.our, p.opp>>)
             ELSE ReplayScore(Tail(comments), score)

Primed ==
    /\ m_pc = "priming"
    /\ m_pc' # m_pc
    /\ posted # <<>>
    /\ seen_comments' = Ids(VisibleComments)

C30_PrimedScoreIsReplay ==
    [][Primed => current_score' = ReplayScore(VisibleComments, <<0, 0>>)]_vars

-----------------------------------------------------------------------------
(* Claims about the event history *)

\* C31: the event history never holds more than history_limit (10) entries:
\* after n emitted goal events it holds the descriptions of the last
\* min(n, 10) of them in emission order, the oldest dropped first.
Emitted == SelectSeq(sent, LAMBDA r : r.ok)

LastEmitted(n) ==
    LET e == Emitted
        k == IF Len(e) < n THEN Len(e) ELSE n
    IN  [i \in 1..k |-> e[Len(e) - k + i].ev]

C31_HistoryIsLastTen ==
    /\ Len(message_history) <= history_limit
    /\ message_history = LastEmitted(history_limit)

C31_Witness ==
    /\ Len(Emitted) > history_limit
    /\ Len(message_history) = history_limit
    /\ message_history[1] = Emitted[Len(Emitted) - history_limit + 1].ev

-----------------------------------------------------------------------------
(* Claims about the rate limiter under several callers *)

\* C32: a retry backoff sleep blocks only the task that issued the failing
\* call: the sleeper neither holds the lock nor waits for it, so another
\* caller that is next for the free lock can take its acquire or its
\* release step during that sleep.
InBackoff(c) == pc[c] = "backoff"

NextForLock(k) == lock = 0 /\ waiters # <<>> /\ Head(waiters) = k

C32_BackoffBlocksOnlyIssuer ==
    \A c \in DOMAIN pc :
        InBackoff(c) =>
            /\ lock # c
            /\ \A i \in 1..Len(waiters) : waiters[i] # c
            /\ \A k \in DOMAIN pc \ {c} :
                   /\ (NextForLock(k) /\ pc[k] = "w_lock") =>
                          ENABLED wait_if_needed(k)
                   /\ (NextForLock(k) /\ pc[k] = "c_lock") =>
                          ENABLED mark_call_complete(k)

\* During the second backoff of caller 1 (20 s) caller 2 has been granted
\* and has completed its release.
C32_Witness ==
    /\ InBackoff(1)
    /\ backoffs[1] # <<>>
    /\ Len(grants) >= 1
    /\ grants[Len(grants)] > wake[1] - backoffs[1][Len(backoffs[1])]
    /\ pc[2] = "idle"
    /\ result[2] = "returned"
    /\ last_call_time >= grants[Len(grants)]


-----------------------------------------------------------------------------
(* Claims about comments that change nothing *)

\* C33: a comment whose text does not match the score pattern, and a matching
\* comment that raises neither component (an exact repeat or a decrease), is
\* a no-op: no event is emitted and the score state and the event history are
\* left unchanged.
RaisesNeither(text, score) ==
    LET p == parse_score_comment(text)
    IN  p.ok /\ p.our <= score[1] /\ p.opp <= score[2]

IsNoise(text, score) == ~is_score_comment(text) \/ RaisesNeither(text, score)

NoiseStep ==
    (fed' # fed /\ IsNoise(fed'[Len(fed')], current_score)) =>
        /\ sent' = sent
        /\ current_score' = current_score
        /\ message_history' = message_history

C33_NoiseIsNoOp == [][NoiseStep]_vars

\* A repeat, a decrease and a text without a score have all been fed after a
\* goal, and only the goal produced events
C33_Witness ==
    /\ Len(fed) = 4
    /\ fed[1] = ScoreText(1, 1, "")
    /\ {fed[2], fed[3], fed[4]} =
           {ScoreText(1, 1, ""), <<Space, Num(0), Dash, Num(1), Space>>,
            <<Word("hello")>>}
    /\ Len(sent) = 1 /\ sent[1].ok
    /\ current_score = <<1, 1>>
    /\ Len(message_history) = 1

-----------------------------------------------------------------------------
(* Claims about the classification of a payload *)

\* C34: for every live in {absent, 0, 1, 2}, live_status in {"", "started",
\* "finished"}, is_mobile_live and type, is_live_stream answers true iff
\* live = 1, or live_status is not "finished" and (live_status is "started" or
\* is_mobile_live or type is "live"); is_stream_ended answers true iff
\* live = 2 or live_status is "finished", whatever is_live_stream answers.
LiveTable(video) ==
    \/ video.live = 1
    \/ /\ video.live_status # "finished"
       /\ \/ video.live_status = "started"
          \/ video.is_mobile_live
          \/ video.type = "live"

EndedTable(video) == video.live = 2 \/ video.live_status = "finished"

C34_TruthTable ==
    /\ cl_live # "unknown" => (cl_live = "yes" <=> LiveTable(cl_video))
    /\ cl_ended # "unknown" => (cl_ended = "yes" <=> EndedTable(cl_video))

\* A payload whose only sign of a broadcast is type "live" is live and not
\* ended; both answers have been computed
C34_Witness ==
    /\ cl_video = [live |-> 0, live_status |-> "", is_mobile_live |-> FALSE,
                   type |-> "live"]
    /\ cl_live = "yes"
    /\ cl_ended = "no"

C34_WitnessEnded ==
    /\ cl_video.live # 2 /\ cl_video.live_status = "finished"
    /\ cl_video.is_mobile_live
    /\ cl_live = "no"
    /\ cl_ended = "yes"

-----------------------------------------------------------------------------
(* The delivery of comments posted during a broadcast *)

\* The video has this many comments when the monitor is created
ExistingCounts == {comments_count - 1, comments_count}

DeliveryMaxComments == comments_count - 1 + MaxLate

Chatter(n) == [i \in 1..n |-> <<Word("hello")>>]

DeliveryInit ==
    /\ LimiterInit(Callers)
    /\ \E n \in ExistingCounts : MonitorInitWith(Chatter(n), DeliveryMaxComments)
    /\ RegistryInit
    /\ CacheInit
    /\ ClassifyInit

\* The steps of the monitor's task while the stream stays live and every
\* provider call succeeds
DeliveryMonitorStep ==
    \/ start_monitoring(0)
    \/ \E resp \in {get_video_comments} : process_existing_comments(resp, TRUE)
    \/ check_comments_info("video", Started, 0)
    \/ \E resp \in {get_video_comments} : check_comments_fetched(resp, "ok", 0)
    \/ \E sink_ok \in BOOLEAN : send_new_comment(sink_ok)
    \/ sleep_wake

DeliveryNext ==
    \/ DeliveryMonitorStep
    \/ \E text \in PostableTexts : PostUpTo(DeliveryMaxComments, text)

\* The event loop runs the monitor's task whenever it can go on
SpecDelivery ==
    DeliveryInit /\ [][DeliveryNext]_vars /\ WF_vars(DeliveryMonitorStep)

\* C35: while the stream stays live and the provider calls succeed, every
\* score comment posted after priming is eventually fetched, found unseen and
\* put through the score state machine, however many comments the video
\* already has.
PostedAfterPriming(i) ==
    /\ primed_upto >= 0
    /\ i > primed_upto
    /\ i <= Len(posted)
    /\ is_score_comment(posted[i])

\* the positions a comment posted during the broadcast can have
LatePositions == comments_count..DeliveryMaxComments

C35_EventualDelivery ==
    \A i \in LatePositions : PostedAfterPriming(i) ~> (processed[i] > 0)

-----------------------------------------------------------------------------
(* Discovery after a tracked stream is over *)

\* The steps of the task of VKGroupStreamMonitor.start_polling
RediscoveryGroupStep ==
    \/ \E ok \in BOOLEAN : start_polling(ok)
    \/ handle_new_stream
    \/ handle_new_stream_task
    \/ check_for_new_streams_begin
    \/ \E ok \in BOOLEAN : check_for_new_streams(ok)
    \/ handle_ended_stream
    \/ group_sleep_wake

\* The steps of the tasks of the monitors
RediscoveryTaskStep ==
    \/ \E m \in MonIds : task_start_monitoring(m)
    \/ \E m \in MonIds, verdict \in {"continue", "ended", "not_found"} :
          task_check_comments(m, verdict)

RediscoveryNext ==
    \/ RediscoveryGroupStep
    \/ RediscoveryTaskStep
    \/ \E url \in Urls : remove_translation_callback(url)
    \/ \E v \in Videos : stream_changes(v)

\* The event loop runs the group monitor's task and the monitors' tasks
\* whenever they can go on; the user may remove a stream but does not have
\* to.  Every video is discovered at most once, so MaxMonitors monitors
\* are enough for NumVideos videos.
SpecRediscovery ==
    /\ Init
    /\ [][RediscoveryNext]_vars
    /\ WF_vars(RediscoveryGroupStep)
    /\ WF_vars(RediscoveryTaskStep)

\* C36: after a tracked stream has ended and its monitor has stopped, the
\* group monitor eventually performs a full discovery cycle again (it fetches
\* the group's broadcast list) without any manual command.
TrackedStreamOver ==
    \E u \in Registered :
        /\ \E st \in stream_started : st.video = parse_video_url(u)
        /\ mon[active_translations[u]].task = "done"
        /\ is_stream_ended(wall[parse_video_url(u)])

C36_DiscoveryResumes == TrackedStreamOver ~> (g_pc = "fetch")

-----------------------------------------------------------------------------
(* Claims about the last-call timestamp *)

\* C37: the limiter's last-call timestamp never moves backward: no grant,
\* release or rate-limit nudge, by whichever caller, sets it to a value lower
\* than the one it held before.
C37_LastCallMonotone == [][last_call_time' >= last_call_time]_vars

-----------------------------------------------------------------------------
(* Progress of the callers of the rate limiter *)

\* A client method is started while the clock is young, so that every sleep
\* it leads to ends before the clock of the model stops
FairBegin(c, o) == now <= BeginBy /\ Begin(c, o)

\* the task of caller c can take a step now: it can have the lock, its sleep
\* is over, or its remote call is about to return
Ready(c) ==
    \/ pc[c] \in {"w_lock", "c_lock", "n_lock"} /\ MayLock(c)
    \/ pc[c] \in {"w_window", "w_delay", "backoff"} /\ now >= wake[c]
    \/ pc[c] = "calling"

\* A step of the event loop takes no time and a remote call takes less than
\* one step of the clock: the clock moves when every task is asleep or waits
\* for the lock
FairTick ==
    /\ \E c \in Callers : pc[c] # "idle"
    /\ \A c \in Callers : ~Ready(c)
    /\ Advance(FairMaxTime)

\* The steps of the task of caller c once its method has started
CallerStep(c) ==
    \/ wait_if_needed(c)
    \/ wait_window_wake(c)
    \/ wait_delay_wake(c)
    \/ \E out \in Outcomes : remote_return(c, out)
    \/ mark_call_complete(c)
    \/ backoff_wake(c)
    \/ handle_rate_limit_error(c)

FairNext ==
    \/ \E c \in Callers, o \in Ops : FairBegin(c, o)
    \/ \E c \in Callers : CallerStep(c)
    \/ FairTick

\* The event loop runs every task that can go on, every remote call ends and
\* time passes
SpecFair ==
    /\ Init
    /\ [][FairNext]_vars
    /\ \A c \in Callers : WF_vars(CallerStep(c))
    /\ WF_vars(FairTick)

\* every sleep of the model ends before its clock stops
SleepsEnd == \A c \in Callers : wake[c] <= FairMaxTime

\* C38: the limiter is free of deadlock and starvation: under fair scheduling
\* and finite remote-call durations every caller of wait_if_needed is
\* eventually granted and every mark_call_complete eventually completes,
\* whatever the other callers do and whichever calls are rate limited.
C38_NoStarvation ==
    \A c \in Callers :
        /\ (pc[c] = "w_lock") ~> (pc[c] = "calling")
        /\ (pc[c] = "c_lock") ~> (pc[c] \in {"idle", "backoff"})
        /\ (pc[c] = "n_lock") ~> (pc[c] = "w_lock")

\* Both callers have been granted, one of them after a rate-limited call and
\* its backoff, while the other was using the limiter
C38_Witness ==
    /\ pc[1] = "calling" /\ retry_count[1] >= 1
    /\ calls[2] >= 1
    /\ pc[2] \in {"w_lock", "w_delay", "w_window", "c_lock"}

-----------------------------------------------------------------------------
(* Claims about a goal event whose send fails *)

\* C39: a comment id is in seen_comments before its event is sent and the
\* score is advanced only after the send succeeded: when the sink fails on a
\* goal event the score and the history stay as they were and the comment is
\* never processed again, so the event is delivered at most once and is not
\* retried on a later tick.
SeenBeforeSend == Ids(new_comments) \subseteq seen_comments

\* the step hands a comment to send_comment_to_channel
SendStep == m_pc = "sending" /\ fed' # fed

FailedSend == Len(sent') = Len(sent) + 1 /\ ~sent'[Len(sent')].ok

SendOnceStep ==
    SendStep =>
        /\ processed[Head(new_comments).id] = 0
        /\ Head(new_comments).id \in seen_comments'
        /\ FailedSend => /\ current_score' = current_score
                         /\ message_history' = message_history
        /\ current_score' # current_score =>
               /\ Len(sent') = Len(sent) + 1
               /\ sent'[Len(sent')].ok

C39_FailedSendNotRetried == []SeenBeforeSend /\ [][SendOnceStep]_vars

\* The send of the goal of comment 1 failed, a later tick returned the comment
\* again, and the monitor sleeps with the score it had before
C39_Witness ==
    /\ Len(posted) >= 1 /\ posted[1] = ScoreText(1, 0, "Smith")
    /\ Len(sent) = 1 /\ ~sent[1].ok
    /\ processed[1] = 1 /\ returned[1] = 2
    /\ current_score = <<0, 0>> /\ message_history = <<>>
    /\ m_pc = "sleep"

-----------------------------------------------------------------------------
(* Claims about payloads that are live and ended *)

\* C40: no video payload is classified both live (is_live_stream) and ended
\* (is_stream_ended), so discovery never starts a monitor for a video that
\* the monitor's first tick, given the same fields, classifies as ended.
C40_LiveExcludesEnded == ~(cl_live = "yes" /\ cl_ended = "yes")
=============================================================================
